---------------------------- MODULE Spec2Model ----------------------------
(***************************************************************************)
(* A model of evaluate-ai: the scorers' _evaluate functions, the scorers'  *)
(* execute / num_instances loops over (provider, model) x instance with a  *)
(* skip set, and the runner command scripts/run_evaluations.py:main with   *)
(* the TinyDB result store.                                                *)
(*                                                                         *)
(* The specifications share the variables:                                 *)
(*   SpecScore    one scorer's _evaluate applied to drawn inputs, and the  *)
(*                output record execute builds from the returned score;    *)
(*   SpecExec     Evaluation.execute(progress, keys_to_skip) and           *)
(*                num_instances(keys_to_skip) of one scorer;               *)
(*   Spec         the runner command, run repeatedly against one store;    *)
(*   SpecRubric   the rubric scorer's execute on one item, call by call;   *)
(*   SpecStrip    utils.strip_thinking and the texts handed on;            *)
(*   SpecConflict instructions_registry: conflict_make and the import;     *)
(*   SpecProgress SpecExec and Spec side by side;                          *)
(*   SpecLoad     the configuration loaders, statement by statement;       *)
(*   SpecKeys     get_executed_evaluations on a store of both kinds.       *)
(*                                                                         *)
(* Scores are exact rationals <<n, d>> (n/d, d > 0); Python computes them  *)
(* in binary floating point, which can differ in the last bits.            *)
(***************************************************************************)
EXTENDS Integers, Sequences, FiniteSets, TLC

VARIABLES
    \* --- SpecScore: one application of a scorer's _evaluate
    scorer,              \* which Evaluation subclass is scoring
    inputs,              \* the arguments of _evaluate (response, instance fields)
    outcome,             \* what _evaluate did: returned a score, or raised
    instance_output,     \* the EvaluationInstanceOutput execute built, or None
    spc,                 \* "ready" | "evaluated" | "saved" | "raised"
    \* --- SpecExec: Evaluation.execute / num_instances of one scorer
    models,              \* self.models: list of (provider, model)
    evaluation_instances,\* self.config.evaluation_instances: list of instance names
    keys_to_skip,        \* the argument of execute and num_instances
    mi, ei,              \* positions of the two for loops of execute
    epc,                 \* where execute is
    num,                 \* what num_instances returned, NotCounted before
    ran,                 \* keys of the items whose body execute entered, in order
    \* --- Spec: scripts/run_evaluations.py main, run again and again
    config_yaml,         \* data/evaluations/config.yaml as it is on disk
    files,               \* the definition files named by --files, as they are on disk
    flag_given,          \* whether --only_new is on the command line of this run
    only_new,            \* args.only_new
    config,              \* what RunConfig.load returned
    evaluations,         \* the evaluation dicts read from the files
    unique_evals,        \* what get_executed_evaluations returned
    evaluations_to_run,  \* the list of (evaluation, model, llm_client) gathered
    provider,            \* the variable `provider` of main, left by the gathering loop
    idx,                 \* position of the execution loop in evaluations_to_run
    total,               \* the total given to progress.add_task
    pc,                  \* where main is
    exit_status,         \* the process's exit status once it has exited
    prev_exit,           \* the exit status of the run before this one
    run,                 \* number of runs started
    \* --- shared by SpecExec and Spec
    db,                  \* the TinyDB store: the list of documents
    db0,                 \* the store as it was when execute / the run began
    progress,            \* number of progress.advance calls
    calls,               \* number of answer-generation calls (_get_response) made
    \* --- SpecRubric: EvaluationMeetsCriteria.execute on one pending item
    semantic_criteria,   \* e_instance.semantic_criteria: the list of importances
    message,             \* the answer of the model under test
    reasoning,           \* the text of the judge's last reasoning call
    crit,                \* position of the loop over semantic_criteria
    score_sum,           \* the local `score` of _evaluate: the importance awarded so far
    call_log,            \* the chat_completion calls made so far, in order
    rpc,                 \* where execute / _evaluate is
    \* --- SpecConflict: instructions_registry
    conflicts,           \* the dictionary given to conflict_make, which changes it in place
    conflicts0,          \* that dictionary as it was before any call
    set_order,           \* the order in which this process iterates the ids of a set
    applied,             \* number of conflict_make calls made on `conflicts`
    after_first,         \* `conflicts` as the first call left it
    key_error,           \* for each call made, whether it raised KeyError
    registry,            \* INSTRUCTION_CONFLICTS as the imported module exposes it
    \* --- SpecStrip: utils.strip_thinking applied to a text
    think_text,          \* the argument `response`, a list of text fragments
    think_result,        \* what strip_thinking returned, NotStripped before
    reached,             \* the text handed on to the extraction or to the judge
    \* --- SpecLoad: the configuration loaders and initialize_evaluation_instances
    loader,              \* which class method is running
    document,            \* the YAML file at `path`, as it is on disk
    lpc,                 \* where the method is
    exc,                 \* the exception in flight, NoException if none
    loaded,              \* what the method returned
    logged,              \* the logger.error calls made, in order
    entries,             \* the argument `evaluations`: the list of evaluation dicts
    \* --- the frame of a scoring, and the store query
    created,             \* the arguments of _evaluate as the instance held them when created
    kpc                  \* where get_executed_evaluations is

scoreVars == <<scorer, inputs, outcome, instance_output, spc>>
execVars == <<models, evaluation_instances, keys_to_skip, mi, ei, epc, num, ran>>
sharedVars == <<db, db0, progress, calls>>

mainVars == <<config_yaml, files, flag_given, only_new, config, evaluations, unique_evals,
              evaluations_to_run, provider, idx, total, pc, exit_status, prev_exit, run>>

rubricVars == <<semantic_criteria, message, reasoning, crit, score_sum, call_log, rpc>>
conflictVars == <<conflicts, conflicts0, set_order, applied, after_first, key_error, registry>>

stripVars == <<think_text, think_result, reached>>

loadVars == <<loader, document, lpc, exc, loaded, logged, entries>>
frameVars == <<created, kpc>>

vars == <<scoreVars, execVars, mainVars, sharedVars, rubricVars, conflictVars, stripVars,
          loadVars, frameVars>>

None == "None"
\* a response that is None (message.content of a completion without text)
NoneText == <<None>>

(***************************************************************************)
(* Bounds of the model.                                                    *)
(***************************************************************************)
MaxRespLen == 2      \* characters of a pattern scorer response
MaxTextLen == 4      \* tokens of a multiple-choice response
MaxCriteria == 2     \* semantic criteria of a rubric instance
MaxInstr == 2        \* instruction ids of an instruction-following instance

SeqsUpTo(S, n) == UNION {[1..k -> S] : k \in 0..n}

RECURSIVE SumSeq(_)
SumSeq(s) == IF s = <<>> THEN 0 ELSE s[1] + SumSeq(Tail(s))

(***************************************************************************)
(* Results of a call: a value returned, or an exception raised.            *)
(* A score is the rational n/d; 100 and 0 are <<100,1>> and <<0,1>>.       *)
(***************************************************************************)
NoScore == <<0, 0>>
NoOutcome == [raised |-> FALSE, exc |-> "", score |-> NoScore, diag |-> "not called"]
NoOutput == [output_type |-> "none", class_name |-> "", score |-> NoScore]
Returned(score, diag) == [raised |-> FALSE, exc |-> "", score |-> score, diag |-> diag]
Raised(e) == [raised |-> TRUE, exc |-> e, score |-> NoScore, diag |-> ""]

\* (x / total) * 100 accumulated over the awarded criteria, as one fraction
Frac(n, d) == IF d < 0 THEN <<0 - n, 0 - d>> ELSE <<n, d>>
FracGE0(q) == q[1] >= 0
FracLE100(q) == q[1] <= 100 * q[2]
InRange(q) == q[2] > 0 /\ FracGE0(q) /\ FracLE100(q)
\* a value with at most two decimals: 100 * (n/d) is an integer
TwoDecimals(q) == q[2] > 0 /\ (100 * q[1]) % q[2] = 0
IsZeroOrHundred(q) == q = <<0, 1>> \/ q = <<100, 1>>

(***************************************************************************)
(* Pattern scorer: EvaluationContainsPattern._evaluate.                    *)
(* Responses are short strings over a digit and a non-digit; the patterns *)
(* are two valid regular expressions and one re.compile rejects.           *)
(***************************************************************************)
Chars == {"x", "4"}
Responses == SeqsUpTo(Chars, MaxRespLen)
Patterns == {"[0-9]+", "^[0-9]+$", "("}

\* re.compile(pattern): "(" is an unterminated group, re.error
re_compiles(pattern) == pattern # "("

\* pattern.search(response)
re_search(pattern, response) ==
    CASE pattern = "[0-9]+" -> \E i \in 1..Len(response) : response[i] = "4"
      [] pattern = "^[0-9]+$" -> /\ Len(response) >= 1
                                 /\ \A i \in 1..Len(response) : response[i] = "4"
      [] OTHER -> FALSE

ContainsPattern_evaluate(response, pattern) ==
    IF ~re_compiles(pattern)
    THEN Raised("re.error")
    ELSE Returned(IF re_search(pattern, response) THEN <<100, 1>> ELSE <<0, 1>>, "")

(***************************************************************************)
(* Schema scorer: EvaluationStructuredOutput._evaluate.  A response is the *)
(* set of keys of the generated object; a schema lists required keys and   *)
(* is itself well formed or not (jsonschema.validate checks the schema     *)
(* first and raises SchemaError, which _evaluate does not catch).          *)
(***************************************************************************)
Keys == {"size", "name"}
Schemas == [wellformed : BOOLEAN, required : SUBSET Keys]

\* jsonschema.validate(instance, schema)
validate(instance, schema) ==
    IF ~schema.wellformed THEN "SchemaError"
    ELSE IF ~(schema.required \subseteq instance) THEN "ValidationError"
    ELSE "ok"

StructuredOutput_evaluate(response, json_schema) ==
    LET v == validate(response, json_schema) IN
    CASE v = "ok" -> Returned(<<100, 1>>, None)
      [] v = "ValidationError" ->
            Returned(<<0, 1>>, CHOOSE k \in json_schema.required : k \notin response)
      [] OTHER -> Raised(v)

(***************************************************************************)
(* strip_thinking (utils.py) over a token sequence: every non-overlapping  *)
(* "<think>" ... first following "</think>" block is removed, leftmost     *)
(* first (re.sub of the non-greedy pattern with DOTALL).  Tokens carry no  *)
(* leading whitespace, so the trailing lstrip() changes nothing here.      *)
(***************************************************************************)
Letters == {"A", "B"}
Tokens == Letters \cup {"answer is", "Answer:", "so", "<think>", "</think>", "**"}
Texts == SeqsUpTo(Tokens, MaxTextLen)

\* the number of fragments the tag "<think>" takes at the head of t: written whole, or
\* as "<th" directly followed by "ink>"; 0 when t does not begin with the tag
OpenTagLen(t) ==
    IF t = <<>> THEN 0
    ELSE IF Head(t) = "<think>" THEN 1
    ELSE IF Len(t) >= 2 /\ t[1] = "<th" /\ t[2] = "ink>" THEN 2
    ELSE 0

RECURSIVE re_sub_think(_)
re_sub_think(t) ==
    IF t = <<>> THEN <<>>
    ELSE LET n == OpenTagLen(t)
             closes == {k \in (n + 1)..Len(t) : t[k] = "</think>"}
         IN IF n > 0 /\ closes # {}
            THEN re_sub_think(SubSeq(t, (CHOOSE k \in closes : \A m \in closes : k <= m) + 1,
                                     Len(t)))
            ELSE <<Head(t)>> \o re_sub_think(Tail(t))

strip_thinking(response) ==
    LET result == re_sub_think(response) IN
    IF result # response THEN result ELSE response

(***************************************************************************)
(* Multiple-choice scorer: MMLUProEvaluation._evaluate and its three       *)
(* extractors, over tokens.  "answer is" stands for the phrase of pattern  *)
(* 1 and "Answer:" for the marker of pattern 2; a letter token is an       *)
(* isolated letter.                                                        *)
(***************************************************************************)
\* re.search(r"\b[A-J]\b(?!.*\b[A-J]\b)", text, re.DOTALL): the last isolated letter
extract_final(text) ==
    LET at == {i \in 1..Len(text) : text[i] \in Letters} IN
    IF at = {} THEN None
    ELSE text[CHOOSE i \in at : \A k \in at : k <= i]

\* re.search(r".*[aA]nswer:\s*([A-J])", text): greedy .* takes the last marker
\* that a letter follows
extract_again(text) ==
    LET at == {i \in 1..(Len(text) - 1) : text[i] = "Answer:" /\ text[i + 1] \in Letters} IN
    IF at = {} THEN extract_final(text)
    ELSE text[(CHOOSE i \in at : \A k \in at : k <= i) + 1]

\* an extraction that starts at the second pattern
extract_answer_SkipFirst(text) == extract_again(text)

\* re.search(r"answer is \(?([A-J])\)?", text): the first occurrence
extract_answer(text) ==
    LET at == {i \in 1..(Len(text) - 1) : text[i] = "answer is" /\ text[i + 1] \in Letters} IN
    IF at = {} THEN extract_again(text)
    ELSE text[(CHOOSE i \in at : \A k \in at : i <= k) + 1]

\* response.replace("**", "")
replace_bold(text) == SelectSeq(text, LAMBDA tok : tok # "**")

MMLUPro_evaluate(response, expected_value) ==
    IF response = NoneText
    THEN Raised("TypeError")      \* re.sub on None inside strip_thinking
    ELSE LET extracted_answer == extract_answer(replace_bold(strip_thinking(response))) IN
         IF extracted_answer = None THEN Returned(<<0, 1>>, "")
         ELSE IF extracted_answer = expected_value THEN Returned(<<100, 1>>, "")
         ELSE Returned(<<0, 1>>, "")

\* MMLUProEvaluation.execute wraps the call: try: score = _evaluate(..) except: score = 0
MMLUPro_score(response, expected_value) ==
    LET r == MMLUPro_evaluate(response, expected_value) IN
    IF r.raised THEN Returned(<<0, 1>>, "") ELSE r

(***************************************************************************)
(* Rubric scorer: EvaluationMeetsCriteria._evaluate.  importance is the    *)
(* list of the criteria's integer weights; judge[i] is what the two judge  *)
(* calls for criterion i come to: a transport error, an extraction that    *)
(* fails inside the try (no "answer" key, no JSON), or the JSON value      *)
(* found under "answer".                                                   *)
(***************************************************************************)
ImportanceValues == {-1, 0, 1, 2}
AnswerValues == {"true", "false", "'false'", "null"}
JudgeOutcomes == AnswerValues \cup {"missing_key", "malformed_json", "transport_error"}

\* Python truth value of the JSON value: `if evaluation_result:`
Truthy(v) == v \in {"true", "'false'"}

RECURSIVE RubricLoop(_, _, _, _, _)
RubricLoop(importance, judge, total_importance, i, awarded) ==
    IF i > Len(importance)
    THEN Returned(IF Len(importance) = 0 THEN <<0, 1>>
                  ELSE Frac(100 * awarded, total_importance), "")
    ELSE IF total_importance = 0
    THEN Raised("ZeroDivisionError")          \* importance / total_importance
    ELSE IF judge[i] = "transport_error"
    THEN Raised("TransportError")             \* chat_completion, outside the try
    ELSE IF judge[i] \in {"missing_key", "malformed_json"}
    THEN RubricLoop(importance, judge, total_importance, i + 1, awarded)   \* except: continue
    ELSE RubricLoop(importance, judge, total_importance, i + 1,
                    IF Truthy(judge[i]) THEN awarded + importance[i] ELSE awarded)

MeetsCriteria_evaluate(importance, judge) ==
    RubricLoop(importance, judge, SumSeq(importance), 1, 0)

(***************************************************************************)
(* Instruction-following scorer: IFEvalEvaluation._evaluate.  follows[i]   *)
(* is what checker i's check_following(response) returns.                  *)
(***************************************************************************)
INSTRUCTION_DICT ==
    {"keywords:existence", "keywords:frequency", "keywords:forbidden_words",
     "keywords:letter_frequency", "language:response_language",
     "length_constraints:number_sentences", "length_constraints:number_paragraphs",
     "length_constraints:number_words", "length_constraints:nth_paragraph_first_word",
     "detectable_content:number_placeholders", "detectable_content:postscript",
     "detectable_format:number_bullet_lists", "detectable_format:constrained_response",
     "detectable_format:number_highlighted_sections", "detectable_format:multiple_sections",
     "detectable_format:json_format", "detectable_format:title",
     "combination:two_responses", "combination:repeat_prompt", "startend:end_checker",
     "change_case:capital_word_frequency", "change_case:english_capital",
     "change_case:english_lowercase", "punctuation:no_comma", "startend:quotation"}
\* the ids an instance's instruction_id_list is drawn from: two registered, one not
InstructionIds == {"keywords:existence", "punctuation:no_comma", "keywords:unregistered"}
IFResponses == {"", " ", "ok"}

\* response.strip()
strip(response) == IF response = " " THEN "" ELSE response

RECURSIVE IFEvalLoop(_, _, _, _, _)
IFEvalLoop(response, instruction_id_list, follows, index, passed) ==
    IF index > Len(instruction_id_list)
    THEN IF Len(instruction_id_list) = 0
         THEN Raised("ZeroDivisionError")     \* sum(..) / len(is_following_list)
         ELSE Returned(Frac(100 * passed, Len(instruction_id_list)), "")
    ELSE IF instruction_id_list[index] \notin INSTRUCTION_DICT
    THEN Raised("KeyError")                   \* INSTRUCTION_DICT[instruction_id]
    ELSE IFEvalLoop(response, instruction_id_list, follows, index + 1,
                    IF strip(response) # "" /\ follows[index] THEN passed + 1 ELSE passed)

IFEval_evaluate(response, instruction_id_list, follows) ==
    IFEvalLoop(response, instruction_id_list, follows, 1, 0)

\* kwargs[index]["section_splitter"] = kwargs[index]["section_spliter"];
\* del kwargs[index]["section_spliter"]: in place, on the dict the caller passed
RenameSplitter(kw) ==
    IF "section_spliter" \in kw
    THEN (kw \ {"section_spliter"}) \cup {"section_splitter"}
    ELSE kw

\* the list `kwargs` as _evaluate leaves it: the loop stops where INSTRUCTION_DICT[...]
\* raises KeyError
RECURSIVE KwargsAfterEvaluate(_, _, _)
KwargsAfterEvaluate(instruction_id_list, kwargs, index) ==
    IF index > Len(instruction_id_list) THEN kwargs
    ELSE IF instruction_id_list[index] \notin INSTRUCTION_DICT THEN kwargs
    ELSE KwargsAfterEvaluate(instruction_id_list,
                             [kwargs EXCEPT ![index] = RenameSplitter(@)], index + 1)

(***************************************************************************)
(* SpecScore: Init draws a scorer and the arguments of its _evaluate; one  *)
(* action per scorer applies it; BuildOutput is the construction of the    *)
(* output record from the score in execute.                                *)
(***************************************************************************)
Scorers == {"EvaluationContainsPattern", "EvaluationStructuredOutput",
            "MMLUProEvaluation", "EvaluationMeetsCriteria", "IFEvalEvaluation"}

\* EvaluationInstanceOutput<X>.__name__, the class_name of the record and of the key
OutputClassName(s) ==
    CASE s = "EvaluationContainsPattern" -> "EvaluationInstanceOutputContainsPattern"
      [] s = "EvaluationStructuredOutput" -> "EvaluationInstanceOutputStructuredOutput"
      [] s = "MMLUProEvaluation" -> "EvaluationInstanceOutputMMLUPro"
      [] s = "EvaluationMeetsCriteria" -> "EvaluationInstanceOutputMeetsCriteria"
      [] OTHER -> "EvaluationInstanceOutputIFEval"

PatternInputs == [response : Responses, pattern : Patterns]
SchemaInputs == [response : SUBSET Keys, json_schema : Schemas]
MMLUInputs == [response : Texts \cup {NoneText}, answer : Letters]
RubricInputs == UNION {[importance : [1..n -> ImportanceValues],
                        judge : [1..n -> JudgeOutcomes]] : n \in 0..MaxCriteria}
\* the keys of the kwargs dict a dataset row gives for an instruction id; the rows of
\* detectable_format:multiple_sections spell the key section_spliter
KwargsOf(id) ==
    CASE id = "detectable_format:multiple_sections" ->
            {{"section_spliter", "num_sections"}, {"section_splitter", "num_sections"}}
      [] id = "keywords:existence" -> {{"keywords"}}
      [] OTHER -> {{}}

ScoredInstructionIds == InstructionIds \cup {"detectable_format:multiple_sections"}

\* the instances of n instructions with the ids `ids`
IFEvalInputsOf(n, ids) ==
    [response : IFResponses, instruction_id_list : {ids}, follows : [1..n -> BOOLEAN],
     kwargs : {k \in [1..n -> UNION {KwargsOf(id) : id \in ScoredInstructionIds}] :
                 \A i \in 1..n : k[i] \in KwargsOf(ids[i])}]

IFEvalInputs ==
    UNION {UNION {IFEvalInputsOf(n, ids) : ids \in [1..n -> ScoredInstructionIds]} :
           n \in 0..MaxInstr}

ScoreInputs(s) ==
    CASE s = "EvaluationContainsPattern" -> PatternInputs
      [] s = "EvaluationStructuredOutput" -> SchemaInputs
      [] s = "MMLUProEvaluation" -> MMLUInputs
      [] s = "EvaluationMeetsCriteria" -> RubricInputs
      [] OTHER -> IFEvalInputs

\* score = self._evaluate(...) as execute calls it for scorer s
Evaluate(s, in) ==
    CASE s = "EvaluationContainsPattern" -> ContainsPattern_evaluate(in.response, in.pattern)
      [] s = "EvaluationStructuredOutput" -> StructuredOutput_evaluate(in.response, in.json_schema)
      [] s = "MMLUProEvaluation" -> MMLUPro_score(in.response, in.answer)
      [] s = "EvaluationMeetsCriteria" -> MeetsCriteria_evaluate(in.importance, in.judge)
      [] OTHER -> IFEval_evaluate(in.response, in.instruction_id_list, in.follows)

\* The variables of the specifications that are not running
IdleExec ==
    /\ models = <<>>
    /\ evaluation_instances = <<>>
    /\ keys_to_skip = {}
    /\ mi = 0
    /\ ei = 0
    /\ epc = "idle"
    /\ num = 0
    /\ ran = <<>>

NoConfig == [is_none |-> TRUE, models |-> <<>>]
Unbound == "unbound"
Running == 0 - 1

IdleMain ==
    /\ config_yaml = [exists |-> FALSE, has_models |-> FALSE, models |-> <<>>,
                      has_evaluation_model |-> FALSE]
    /\ files = <<>>
    /\ flag_given = FALSE
    /\ only_new = FALSE
    /\ config = NoConfig
    /\ evaluations = <<>>
    /\ unique_evals = {}
    /\ evaluations_to_run = <<>>
    /\ provider = Unbound
    /\ idx = 0
    /\ total = 0
    /\ pc = "unused"
    /\ exit_status = Running
    /\ prev_exit = Running
    /\ run = 0

IdleShared ==
    /\ db = <<>>
    /\ db0 = <<>>
    /\ progress = 0
    /\ calls = 0

IdleRubric ==
    /\ semantic_criteria = <<>>
    /\ message = <<>>
    /\ reasoning = None
    /\ crit = 0
    /\ score_sum = 0
    /\ call_log = <<>>
    /\ rpc = "unused"

\* strip_thinking not called yet; nothing handed on yet
NotStripped == <<None>>
NotReached == [to |-> None, text |-> <<>>]

IdleStrip ==
    /\ think_text = <<>>
    /\ think_result = NotStripped
    /\ reached = NotReached

\* a dictionary without entries; the registry before the module is imported
EmptyTable == [keys |-> <<>>, sets |-> <<>>]
NotImported == [keys |-> <<>>, sets |-> <<>>]

NoException == "none"
NoDocument == [exists |-> FALSE, readable |-> FALSE, yaml |-> "none", fields |-> <<>>]
NotLoaded == [returned |-> FALSE, is_none |-> FALSE, value |-> <<>>]

IdleLoad ==
    /\ loader = "none"
    /\ document = NoDocument
    /\ lpc = "idle"
    /\ exc = NoException
    /\ loaded = NotLoaded
    /\ logged = <<>>
    /\ entries = <<>>

IdleFrame ==
    /\ created = <<>>
    /\ kpc = "idle"

IdleConflict ==
    /\ conflicts = EmptyTable
    /\ conflicts0 = EmptyTable
    /\ set_order = <<>>
    /\ applied = 0
    /\ after_first = EmptyTable
    /\ key_error = <<>>
    /\ registry = NotImported

InitScore ==
    /\ scorer \in Scorers
    /\ inputs \in ScoreInputs(scorer)
    /\ outcome = NoOutcome
    /\ instance_output = NoOutput
    /\ spc = "ready"
    /\ IdleExec
    /\ IdleMain
    /\ IdleShared
    /\ IdleRubric
    /\ IdleConflict
    /\ IdleStrip
    /\ IdleLoad
    /\ created = inputs
    /\ kpc = "idle"

AfterEvaluate(o) == IF o.raised THEN "raised" ELSE "evaluated"

EvaluatePattern ==
    /\ spc = "ready"
    /\ scorer = "EvaluationContainsPattern"
    /\ outcome' = ContainsPattern_evaluate(inputs.response, inputs.pattern)
    /\ spc' = AfterEvaluate(outcome')
    /\ UNCHANGED <<loadVars, frameVars, stripVars, rubricVars, conflictVars, scorer, inputs, instance_output, execVars, mainVars, sharedVars>>

EvaluateSchema ==
    /\ spc = "ready"
    /\ scorer = "EvaluationStructuredOutput"
    /\ outcome' = StructuredOutput_evaluate(inputs.response, inputs.json_schema)
    /\ spc' = AfterEvaluate(outcome')
    /\ UNCHANGED <<loadVars, frameVars, stripVars, rubricVars, conflictVars, scorer, inputs, instance_output, execVars, mainVars, sharedVars>>

EvaluateMMLU ==
    /\ spc = "ready"
    /\ scorer = "MMLUProEvaluation"
    /\ outcome' = MMLUPro_score(inputs.response, inputs.answer)
    /\ spc' = AfterEvaluate(outcome')
    /\ UNCHANGED <<loadVars, frameVars, stripVars, rubricVars, conflictVars, scorer, inputs, instance_output, execVars, mainVars, sharedVars>>

EvaluateRubric ==
    /\ spc = "ready"
    /\ scorer = "EvaluationMeetsCriteria"
    /\ outcome' = MeetsCriteria_evaluate(inputs.importance, inputs.judge)
    /\ spc' = AfterEvaluate(outcome')
    /\ UNCHANGED <<loadVars, frameVars, stripVars, rubricVars, conflictVars, scorer, inputs, instance_output, execVars, mainVars, sharedVars>>

EvaluateIFEval ==
    /\ spc = "ready"
    /\ scorer = "IFEvalEvaluation"
    /\ outcome' = IFEval_evaluate(inputs.response, inputs.instruction_id_list, inputs.follows)
    /\ inputs' = [inputs EXCEPT !.kwargs =
                      KwargsAfterEvaluate(inputs.instruction_id_list, inputs.kwargs, 1)]
    /\ spc' = AfterEvaluate(outcome')
    /\ UNCHANGED <<loadVars, frameVars, stripVars, rubricVars, conflictVars, scorer, instance_output, execVars, mainVars, sharedVars>>

\* instance_output = EvaluationInstanceOutput<X>(class_name=.., score=score, ..)
BuildOutput ==
    /\ spc = "evaluated"
    /\ instance_output' = [output_type |-> "instance",
                           class_name |-> OutputClassName(scorer),
                           evaluation_instance |-> inputs,
                           score |-> outcome.score]
    /\ spc' = "saved"
    /\ UNCHANGED <<loadVars, frameVars, stripVars, rubricVars, conflictVars, scorer, inputs, outcome, execVars, mainVars, sharedVars>>

NextScore ==
    \/ EvaluatePattern
    \/ EvaluateSchema
    \/ EvaluateMMLU
    \/ EvaluateRubric
    \/ EvaluateIFEval
    \/ BuildOutput

SpecScore == InitScore /\ [][NextScore]_vars

(***************************************************************************)
(* Providers.  A member of the enumeration utils.Provider is written       *)
(* "Provider.X"; its .value is the string the store and the keys carry.    *)
(***************************************************************************)
Providers == {"Provider.AZURE_OPENAI", "Provider.OLLAMA", "Provider.OPENAI"}

ProviderValue(prov) ==
    CASE prov = "Provider.AZURE_OPENAI" -> "azure_openai"
      [] prov = "Provider.OLLAMA" -> "ollama"
      [] prov = "Provider.OPENAI" -> "openai_api"
      [] OTHER -> prov

UnsupportedProvider == "ValueError"

\* utils.get_llm_client(provider_name): compares its argument with the .value strings
get_llm_client(provider_name) ==
    CASE provider_name = "ollama" -> "OLLAMA_CLIENT"
      [] provider_name = "openai_api" -> "OPENAI_CLIENT"
      [] provider_name = "azure_openai" -> "AZURE_OPENAI_CLIENT"
      [] OTHER -> UnsupportedProvider

\* What each scorer's execute hands to get_llm_client: the multiple-choice and the
\* rubric scorer pass provider.value, the other three pass the enumeration member
ClientArgument(s, prov) ==
    IF s \in {"MMLUProEvaluation", "EvaluationMeetsCriteria"}
    THEN ProviderValue(prov)
    ELSE prov

(***************************************************************************)
(* The store.  save_to_db inserts the record's JSON dump; the documents    *)
(* keep the fields the keys and the claims read.                           *)
(***************************************************************************)
InstanceNames == {"a", "b"}
ModelNames == {"m1", "m2"}

OutputRecord(s, model, prov, name, score) ==
    [output_type |-> "instance",
     class_name |-> OutputClassName(s),
     name_model |-> model,
     provider |-> ProviderValue(prov),
     evaluation_instance |-> [name |-> name],
     score |-> score]

\* a document of the aggregate kind (EvaluationOverallOutput), left by an earlier version
OverallRecord ==
    [output_type |-> "overall",
     class_name |-> "EvaluationOverallOutput",
     name_model |-> "m1",
     provider |-> "ollama",
     evaluation_instance |-> [name |-> "a"],
     score |-> <<0, 1>>]

\* a save that inserts the document twice
save_to_db_Twice(store, record) == Append(Append(store, record), record)

\* EvaluationBaseOutput.save_to_db: db.insert(evaluation_data_dict)
save_to_db(store, record) == Append(store, record)

Range(f) == {f[i] : i \in DOMAIN f}

\* a query that takes the key of every document
get_executed_evaluations_All(store) ==
    {<<doc.class_name, doc.name_model, doc.provider, doc.evaluation_instance.name>> :
        doc \in Range(store)}

\* tinydb_helpers.evaluation_data.get_executed_evaluations
get_executed_evaluations(store) ==
    {<<doc.class_name, doc.name_model, doc.provider, doc.evaluation_instance.name>> :
        doc \in {d \in Range(store) : d.output_type = "instance"}}

(***************************************************************************)
(* Evaluation.__init__, num_instances and execute (contains_pattern.py;    *)
(* the other scorers' execute has the same loops and the same key).        *)
(***************************************************************************)
MaxInstances == 2    \* evaluation instances of one evaluation

\* run_config.models as the list of its (provider, models) items
ModelDicts ==
    { <<>>,
      << <<"Provider.OLLAMA", <<"m1">> >> >>,
      << <<"Provider.OLLAMA", <<"m1", "m2">> >> >>,
      << <<"Provider.OPENAI", <<"m1">> >>, <<"Provider.OLLAMA", <<"m1">> >> >> }

\* __init__: for provider, models in ...items(): for model in models: append (provider, model)
RECURSIVE FlattenModels(_)
FlattenModels(d) ==
    IF d = <<>> THEN <<>>
    ELSE [k \in 1..Len(d[1][2]) |-> <<d[1][1], d[1][2][k]>>] \o FlattenModels(Tail(d))

\* key = (EvaluationInstanceOutput<X>.__name__, model, provider.value, e_instance.name)
ExecKey(s, pm, name) == <<OutputClassName(s), pm[2], ProviderValue(pm[1]), name>>

\* a filter that ignores the skip set
NotSkipped_Always(key, skip) == TRUE

\* `if key not in keys_to_skip`
NotSkipped(key, skip) == key \notin skip

\* the items in loop order: provider/model outer, instance inner
Items(ms, insts) ==
    [k \in 1..(Len(ms) * Len(insts)) |->
        <<((k - 1) \div Len(insts)) + 1, ((k - 1) % Len(insts)) + 1>>]

\* a count that takes every item, stored or not
num_instances_All(s, ms, insts, skip) == Len(ms) * Len(insts)

\* num_instances(keys_to_skip)
num_instances(s, ms, insts, skip) ==
    Cardinality({<<i, j>> \in (1..Len(ms)) \X (1..Len(insts)) :
                    NotSkipped(ExecKey(s, ms[i], insts[j]), skip)})

NotCounted == 0 - 1

\* the inputs execute's _evaluate gets in SpecExec: per scorer one that scores 100,
\* one that scores 0 and one on which _evaluate raises (where it can)
ExecInputs(s) ==
    CASE s = "EvaluationContainsPattern" ->
            {[response |-> <<"4">>, pattern |-> p] : p \in {"[0-9]+", "^[0-9]+$", "("}}
            \cup {[response |-> <<"x">>, pattern |-> "[0-9]+"]}
      [] s = "EvaluationStructuredOutput" ->
            {[response |-> r, json_schema |-> [wellformed |-> w, required |-> {"name"}]] :
                r \in {{}, {"name"}}, w \in BOOLEAN}
      [] s = "MMLUProEvaluation" ->
            {[response |-> r, answer |-> "A"] : r \in {<<"answer is", "A">>, <<"so">>, NoneText}}
      [] s = "EvaluationMeetsCriteria" ->
            {[importance |-> <<1>>, judge |-> <<j>>] : j \in {"true", "false", "transport_error"}}
      [] OTHER ->
            {[response |-> "ok", instruction_id_list |-> <<i>>, follows |-> <<f>>] :
                i \in InstructionIds, f \in BOOLEAN}

CandidateKeys(s, ms, insts) ==
    {ExecKey(s, ms[i], insts[j]) : i \in 1..Len(ms), j \in 1..Len(insts)}

\* a key of another evaluation's record
ForeignKey == <<"EvaluationInstanceOutputOther", "m1", "ollama", "a">>

InitExec ==
    /\ scorer \in Scorers
    /\ \E d \in ModelDicts : models = FlattenModels(d)
    /\ evaluation_instances \in SeqsUpTo(InstanceNames, MaxInstances)
    /\ keys_to_skip \in SUBSET (CandidateKeys(scorer, models, evaluation_instances)
                                \cup {ForeignKey})
    /\ db \in {<<>>, <<OverallRecord>>}
    /\ db0 = db
    /\ mi = 1
    /\ ei = 1
    /\ epc = "count"
    /\ num = NotCounted
    /\ ran = <<>>
    /\ progress = 0
    /\ calls = 0
    /\ inputs = <<>>
    /\ outcome = NoOutcome
    /\ instance_output = NoOutput
    /\ spc = "idle"
    /\ IdleMain
    /\ IdleRubric
    /\ IdleConflict
    /\ IdleStrip
    /\ IdleLoad
    /\ IdleFrame

\* the driver asks for the total before it calls execute
NumInstances ==
    /\ epc = "count"
    /\ num' = num_instances(scorer, models, evaluation_instances, keys_to_skip)
    /\ epc' = "loop"
    /\ UNCHANGED <<loadVars, frameVars, stripVars, rubricVars, conflictVars, scoreVars, models, evaluation_instances, keys_to_skip, mi, ei, ran,
                   mainVars, sharedVars>>

AtItem == mi <= Len(models) /\ Len(evaluation_instances) >= 1

CurrentKey == ExecKey(scorer, models[mi], evaluation_instances[ei])

\* the position after item (mi, ei) in the nested loops
NextMi == IF ei < Len(evaluation_instances) THEN mi ELSE mi + 1
NextEi == IF ei < Len(evaluation_instances) THEN ei + 1 ELSE 1

\* both loops are exhausted: execute returns
ExecuteReturn ==
    /\ epc = "loop"
    /\ ~AtItem
    /\ epc' = "done"
    /\ UNCHANGED <<loadVars, frameVars, stripVars, rubricVars, conflictVars, scoreVars, models, evaluation_instances, keys_to_skip, mi, ei, num, ran,
                   mainVars, sharedVars>>

\* `if key not in keys_to_skip` is false: next item
ExecuteSkip ==
    /\ epc = "loop"
    /\ AtItem
    /\ ~NotSkipped(CurrentKey, keys_to_skip)
    /\ mi' = NextMi
    /\ ei' = NextEi
    /\ UNCHANGED <<loadVars, frameVars, stripVars, rubricVars, conflictVars, scoreVars, models, evaluation_instances, keys_to_skip, epc, num, ran,
                   mainVars, sharedVars>>

\* `if key not in keys_to_skip` is true: the body is entered
ExecuteEnter ==
    /\ epc = "loop"
    /\ AtItem
    /\ NotSkipped(CurrentKey, keys_to_skip)
    /\ ran' = Append(ran, CurrentKey)
    /\ epc' = "get_response"
    /\ UNCHANGED <<loadVars, frameVars, stripVars, rubricVars, conflictVars, scoreVars, models, evaluation_instances, keys_to_skip, mi, ei, num,
                   mainVars, sharedVars>>

ClientResolves == get_llm_client(ClientArgument(scorer, models[mi][1])) # UnsupportedProvider

\* get_llm_client raises ValueError: it propagates out of execute
GetResponseUnsupported ==
    /\ epc = "get_response"
    /\ ~ClientResolves
    /\ epc' = "raised_provider"
    /\ UNCHANGED <<loadVars, frameVars, stripVars, rubricVars, conflictVars, scoreVars, models, evaluation_instances, keys_to_skip, mi, ei, num, ran,
                   mainVars, sharedVars>>

\* chat_completion returns a response
GetResponseOk ==
    /\ epc = "get_response"
    /\ ClientResolves
    /\ calls' = calls + 1
    /\ inputs' \in ExecInputs(scorer)
    /\ epc' = "evaluate"
    /\ UNCHANGED <<loadVars, frameVars, stripVars, rubricVars, conflictVars, scorer, outcome, instance_output, spc, models, evaluation_instances,
                   keys_to_skip, mi, ei, num, ran, mainVars, db, db0, progress>>

\* a transport error that is swallowed: the loop goes on with the next item
GetResponseFails_Continue ==
    /\ epc = "get_response"
    /\ ClientResolves
    /\ calls' = calls + 1
    /\ mi' = NextMi
    /\ ei' = NextEi
    /\ epc' = "loop"
    /\ UNCHANGED <<loadVars, frameVars, stripVars, rubricVars, conflictVars, scoreVars, models, evaluation_instances, keys_to_skip, num, ran,
                   mainVars, db, db0, progress>>

\* chat_completion raises a transport error: it propagates out of execute
GetResponseFails ==
    /\ epc = "get_response"
    /\ ClientResolves
    /\ calls' = calls + 1
    /\ epc' = "raised_transport"
    /\ UNCHANGED <<loadVars, frameVars, stripVars, rubricVars, conflictVars, scoreVars, models, evaluation_instances, keys_to_skip, mi, ei, num, ran,
                   mainVars, db, db0, progress>>

\* score = self._evaluate(...); an exception out of it propagates out of execute
EvaluateItem ==
    /\ epc = "evaluate"
    /\ outcome' = Evaluate(scorer, inputs)
    /\ epc' = IF outcome'.raised THEN "raised_scoring" ELSE "save"
    /\ UNCHANGED <<loadVars, frameVars, stripVars, rubricVars, conflictVars, scorer, inputs, instance_output, spc, models, evaluation_instances,
                   keys_to_skip, mi, ei, num, ran, mainVars, sharedVars>>

\* instance_output = ...(score=score, ...); instance_output.save_to_db()
SaveItem ==
    /\ epc = "save"
    /\ instance_output' = OutputRecord(scorer, models[mi][2], models[mi][1],
                                       evaluation_instances[ei], outcome.score)
    /\ db' = save_to_db(db, instance_output')
    /\ epc' = "advance"
    /\ UNCHANGED <<loadVars, frameVars, stripVars, rubricVars, conflictVars, scorer, inputs, outcome, spc, models, evaluation_instances,
                   keys_to_skip, mi, ei, num, ran, mainVars, db0, progress, calls>>

\* progress.advance(0), then the next item
AdvanceItem ==
    /\ epc = "advance"
    /\ progress' = progress + 1
    /\ mi' = NextMi
    /\ ei' = NextEi
    /\ epc' = "loop"
    /\ UNCHANGED <<loadVars, frameVars, stripVars, rubricVars, conflictVars, scoreVars, models, evaluation_instances, keys_to_skip, num, ran,
                   mainVars, db, db0, calls>>

NextExec ==
    \/ NumInstances
    \/ ExecuteReturn
    \/ ExecuteSkip
    \/ ExecuteEnter
    \/ GetResponseUnsupported
    \/ GetResponseOk
    \/ GetResponseFails
    \/ EvaluateItem
    \/ SaveItem
    \/ AdvanceItem

SpecExec == InitExec /\ [][NextExec]_vars

(***************************************************************************)
(* The runner command: scripts/run_evaluations.py main, with               *)
(* RunConfig.load, EvaluationInstance.check_evaluation_instances and the   *)
(* evaluation registry.                                                    *)
(***************************************************************************)
MaxFiles == 2        \* definition files on the command line
MaxRuns == 2         \* runs of the command against the one store

\* evaluation_registry.EVALUATION_REGISTRY
EVALUATION_REGISTRY == {"contains_pattern", "structured_output", "meets_criteria"}

RegistryClass(type) ==
    CASE type = "contains_pattern" -> "EvaluationContainsPattern"
      [] type = "structured_output" -> "EvaluationStructuredOutput"
      [] OTHER -> "EvaluationMeetsCriteria"

\* the contents a definition file can have: a YAML list of evaluation dicts
FileContents ==
    { <<>>,
      <<[name |-> "a", type |-> "contains_pattern"]>>,
      <<[name |-> "a", type |-> "contains_pattern"], [name |-> "b", type |-> "meets_criteria"]>>,
      <<[name |-> "a", type |-> "contains_pattern"], [name |-> "b", type |-> "unregistered"]>> }

DefinitionFiles ==
    {[exists |-> FALSE, evaluations |-> <<>>]}
    \cup {[exists |-> TRUE, evaluations |-> c] : c \in FileContents}

\* config.yaml: absent, or a document with or without its keys.  run_config.Provider
\* has the members OPENAI and OLLAMA.
ConfigYamls ==
    {[exists |-> FALSE, has_models |-> FALSE, models |-> <<>>, has_evaluation_model |-> FALSE]}
    \cup {[exists |-> TRUE, has_models |-> TRUE, models |-> d, has_evaluation_model |-> e] :
            d \in ModelDicts \ {<<>>}, e \in BOOLEAN}
    \cup {[exists |-> TRUE, has_models |-> FALSE, models |-> <<>>, has_evaluation_model |-> e] :
            e \in BOOLEAN}

\* RunConfig.load: None on a missing file or a validation error (evaluation_model
\* is None when its key is absent); models defaults to {} when its key is absent
RunConfig_load(yaml) ==
    IF ~yaml.exists THEN NoConfig
    ELSE IF ~yaml.has_evaluation_model THEN NoConfig
    ELSE [is_none |-> FALSE, models |-> IF yaml.has_models THEN yaml.models ELSE <<>>]

\* argparse: --only_new is action="store_true" with default=True
parse_only_new(given) == IF given THEN TRUE ELSE TRUE

\* for evaluation_file in evaluation_files: open, yaml.safe_load, extend
RECURSIVE ReadEvaluations(_)
ReadEvaluations(fs) ==
    IF fs = <<>> THEN <<>> ELSE fs[1].evaluations \o ReadEvaluations(Tail(fs))

SomeFileMissing(fs) == \E i \in 1..Len(fs) : ~fs[i].exists

\* EvaluationInstance(config=config, **evaluation) raises: config is not a RunConfig,
\* or ensure_type_is_valid rejects the type
ConstructionRaises(evaluation, cfg) ==
    cfg.is_none \/ evaluation.type \notin EVALUATION_REGISTRY

\* a check that logs the error and returns, as initialize_evaluation_instances does
check_evaluation_instances_Swallow(evals, cfg) == FALSE

\* EvaluationInstance.check_evaluation_instances raises
check_evaluation_instances(evals, cfg) ==
    \E i \in 1..Len(evals) : ConstructionRaises(evals[i], cfg)

\* run_config.get_llm_client(provider): compares with the enumeration members
run_config_get_llm_client(prov) ==
    CASE prov = "Provider.OLLAMA" -> "ollama_client()"
      [] prov = "Provider.OPENAI" -> "openai_client()"
      [] OTHER -> UnsupportedProvider

\* `curr_evaluation_identifier in unique_evals`, the identifier being
\* (curr_evaluation_name, model, provider.value)
AlreadyExecuted(name, model, prov, keys) ==
    <<name, model, ProviderValue(prov)>> \in keys

\* The gathering loops of main over one evaluation: the items appended for it
GatherOne(evaluation, ms, new, keys) ==
    SelectSeq([k \in 1..Len(ms) |-> <<evaluation, ms[k][2], ms[k][1]>>],
              LAMBDA item : ~(new /\ AlreadyExecuted(item[1].name, item[2], item[3], keys)))

\* for evaluation in evaluations: ... ; stops where EvaluationInstance(...) raises
RECURSIVE Gather(_, _, _, _)
Gather(evals, cfg, new, keys) ==
    IF evals = <<>> THEN [raised |-> FALSE, items |-> <<>>]
    ELSE IF FlattenModels(cfg.models) # <<>> /\ ConstructionRaises(evals[1], cfg)
    THEN [raised |-> TRUE, items |-> <<>>]
    ELSE LET rest == Gather(Tail(evals), cfg, new, keys) IN
         [raised |-> rest.raised,
          items |-> GatherOne(evals[1], FlattenModels(cfg.models), new, keys) \o rest.items]

\* the provider the gathering loop leaves in `provider`
LastProvider(evals, cfg) ==
    IF evals = <<>> \/ cfg.models = <<>> THEN Unbound
    ELSE cfg.models[Len(cfg.models)][1]

\* the response and instance parameters the executed item meets in Spec
MainInputs(s) ==
    CASE s = "EvaluationContainsPattern" -> [response |-> <<"4">>, pattern |-> "[0-9]+"]
      [] s = "EvaluationStructuredOutput" ->
            [response |-> {"name"}, json_schema |-> [wellformed |-> TRUE, required |-> {"name"}]]
      [] OTHER -> [importance |-> <<1>>, judge |-> <<"true">>]

Init ==
    /\ config_yaml \in ConfigYamls
    /\ files \in SeqsUpTo(DefinitionFiles, MaxFiles)
    /\ flag_given = FALSE
    /\ only_new = FALSE
    /\ config = NoConfig
    /\ evaluations = <<>>
    /\ unique_evals = {}
    /\ evaluations_to_run = <<>>
    /\ provider = Unbound
    /\ idx = 0
    /\ total = 0
    /\ pc = "idle"
    /\ exit_status = Running
    /\ prev_exit = Running
    /\ run = 0
    /\ db = <<>>
    /\ db0 = <<>>
    /\ progress = 0
    /\ calls = 0
    /\ scorer = "none"
    /\ inputs = <<>>
    /\ outcome = NoOutcome
    /\ instance_output = NoOutput
    /\ spc = "idle"
    /\ IdleExec
    /\ IdleRubric
    /\ IdleConflict
    /\ IdleStrip
    /\ IdleLoad
    /\ IdleFrame

\* the process exits: status 0 from the end of main, 1 from an uncaught exception
Exit(status) ==
    /\ pc' = "exited"
    /\ exit_status' = status

\* the command is started: args = parser.parse_args()
ParseArgs ==
    /\ pc \in {"idle", "exited"}
    /\ run < MaxRuns
    /\ run' = run + 1
    /\ \E given \in BOOLEAN :
          /\ flag_given' = given
          /\ only_new' = parse_only_new(given)
    /\ prev_exit' = exit_status
    /\ exit_status' = Running
    /\ config' = NoConfig
    /\ evaluations' = <<>>
    /\ unique_evals' = {}
    /\ evaluations_to_run' = <<>>
    /\ provider' = Unbound
    /\ idx' = 0
    /\ total' = 0
    /\ db0' = db
    /\ progress' = 0
    /\ calls' = 0
    /\ pc' = "parsed"
    /\ UNCHANGED <<loadVars, frameVars, stripVars, rubricVars, conflictVars, scoreVars, execVars, config_yaml, files, db>>

\* config = RunConfig.load(yaml_file)
LoadConfig ==
    /\ pc = "parsed"
    /\ config' = RunConfig_load(config_yaml)
    /\ pc' = "config_loaded"
    /\ UNCHANGED <<loadVars, frameVars, stripVars, rubricVars, conflictVars, scoreVars, execVars, sharedVars, config_yaml, files, flag_given, only_new,
                   evaluations, unique_evals, evaluations_to_run, provider, idx, total,
                   exit_status, prev_exit, run>>

\* every definition file opens: evaluations holds their entries
ReadFilesOk ==
    /\ pc = "config_loaded"
    /\ ~SomeFileMissing(files)
    /\ evaluations' = ReadEvaluations(files)
    /\ pc' = "files_read"
    /\ UNCHANGED <<loadVars, frameVars, stripVars, rubricVars, conflictVars, scoreVars, execVars, sharedVars, config_yaml, files, flag_given, only_new,
                   config, unique_evals, evaluations_to_run, provider, idx, total,
                   exit_status, prev_exit, run>>

\* Path.open raises FileNotFoundError, which nothing catches
ReadFilesMissing ==
    /\ pc = "config_loaded"
    /\ SomeFileMissing(files)
    /\ Exit(1)
    /\ UNCHANGED <<loadVars, frameVars, stripVars, rubricVars, conflictVars, scoreVars, execVars, sharedVars, config_yaml, files, flag_given, only_new,
                   config, evaluations, unique_evals, evaluations_to_run, provider, idx,
                   total, prev_exit, run>>

\* EvaluationInstance.check_evaluation_instances(evaluations, config) returns
CheckInstancesOk ==
    /\ pc = "files_read"
    /\ ~check_evaluation_instances(evaluations, config)
    /\ pc' = "validated"
    /\ UNCHANGED <<loadVars, frameVars, stripVars, rubricVars, conflictVars, scoreVars, execVars, sharedVars, config_yaml, files, flag_given, only_new,
                   config, evaluations, unique_evals, evaluations_to_run, provider, idx,
                   total, exit_status, prev_exit, run>>

\* it logs the error and raises it again
CheckInstancesRaises ==
    /\ pc = "files_read"
    /\ check_evaluation_instances(evaluations, config)
    /\ Exit(1)
    /\ UNCHANGED <<loadVars, frameVars, stripVars, rubricVars, conflictVars, scoreVars, execVars, sharedVars, config_yaml, files, flag_given, only_new,
                   config, evaluations, unique_evals, evaluations_to_run, provider, idx,
                   total, prev_exit, run>>

\* if args.only_new: unique_evals = get_executed_evaluations()
LoadKeys ==
    /\ pc = "validated"
    /\ unique_evals' = IF only_new THEN get_executed_evaluations(db) ELSE unique_evals
    /\ pc' = "keys_loaded"
    /\ UNCHANGED <<loadVars, frameVars, stripVars, rubricVars, conflictVars, scoreVars, execVars, sharedVars, config_yaml, files, flag_given, only_new,
                   config, evaluations, evaluations_to_run, provider, idx, total,
                   exit_status, prev_exit, run>>

\* the gathering loops, then progress.add_task(total=len(evaluations_to_run))
GatherItems ==
    /\ pc = "keys_loaded"
    /\ LET g == Gather(evaluations, config, only_new, unique_evals) IN
          /\ evaluations_to_run' = g.items
          /\ provider' = LastProvider(evaluations, config)
          /\ IF g.raised
             THEN Exit(1) /\ UNCHANGED <<total, idx>>
             ELSE /\ pc' = "running"
                  /\ total' = Len(g.items)
                  /\ idx' = 1
                  /\ UNCHANGED exit_status
    /\ UNCHANGED <<loadVars, frameVars, stripVars, rubricVars, conflictVars, scoreVars, execVars, sharedVars, config_yaml, files, flag_given, only_new,
                   config, evaluations, unique_evals, prev_exit, run>>

\* the record execute(model, llm_client=llm_client, provider=provider) saves: the
\* provider is main's variable `provider`, not the item's
ItemRecord(item, prov) ==
    OutputRecord(RegistryClass(item[1].type), item[2], prov, item[1].name,
                 Evaluate(RegistryClass(item[1].type),
                          MainInputs(RegistryClass(item[1].type))).score)

\* one turn of the execution loop: execute(...) returns, progress.advance(task)
ExecuteItemOk ==
    /\ pc = "running"
    /\ idx <= Len(evaluations_to_run)
    /\ calls' = calls + 1
    /\ db' = save_to_db(db, ItemRecord(evaluations_to_run[idx], provider))
    /\ progress' = progress + 1
    /\ idx' = idx + 1
    /\ UNCHANGED <<loadVars, frameVars, stripVars, rubricVars, conflictVars, scoreVars, execVars, db0, config_yaml, files, flag_given, only_new,
                   config, evaluations, unique_evals, evaluations_to_run, provider, total,
                   pc, exit_status, prev_exit, run>>

\* execute(...) raises the transport error of its completion call
ExecuteItemFails ==
    /\ pc = "running"
    /\ idx <= Len(evaluations_to_run)
    /\ calls' = calls + 1
    /\ Exit(1)
    /\ UNCHANGED <<loadVars, frameVars, stripVars, rubricVars, conflictVars, scoreVars, execVars, db, db0, progress, config_yaml, files, flag_given,
                   only_new, config, evaluations, unique_evals, evaluations_to_run, provider,
                   idx, total, prev_exit, run>>

\* the execution loop is over: main returns
Finish ==
    /\ pc = "running"
    /\ idx > Len(evaluations_to_run)
    /\ Exit(0)
    /\ UNCHANGED <<loadVars, frameVars, stripVars, rubricVars, conflictVars, scoreVars, execVars, sharedVars, config_yaml, files, flag_given, only_new,
                   config, evaluations, unique_evals, evaluations_to_run, provider, idx,
                   total, prev_exit, run>>

Next ==
    \/ ParseArgs
    \/ LoadConfig
    \/ ReadFilesOk
    \/ ReadFilesMissing
    \/ CheckInstancesOk
    \/ CheckInstancesRaises
    \/ LoadKeys
    \/ GatherItems
    \/ ExecuteItemOk
    \/ ExecuteItemFails
    \/ Finish

Spec == Init /\ [][Next]_vars

(***************************************************************************)
(* Claims about execute and num_instances (SpecExec).                      *)
(***************************************************************************)
KeyOf(doc) == <<doc.class_name, doc.name_model, doc.provider, doc.evaluation_instance.name>>

\* the documents inserted since execute began
NewRecords == SubSeq(db, Len(db0) + 1, Len(db))

\* C1: skip-set filtering is exact.  With C the candidate keys and S = keys_to_skip:
\* the body of execute is entered only for items whose key is in C - S; when execute
\* returns it has been entered once for every item whose key is in C - S, so for
\* exactly the keys C - S; num_instances counts those same items; and with C within S
\* nothing is run.
C1_SkipFilterExact ==
    LET C == {<<OutputClassName(scorer), models[i][2], ProviderValue(models[i][1]),
                evaluation_instances[j]>> :
                 i \in 1..Len(models), j \in 1..Len(evaluation_instances)}
        pendingItems == {<<i, j>> \in (1..Len(models)) \X (1..Len(evaluation_instances)) :
                            <<OutputClassName(scorer), models[i][2],
                              ProviderValue(models[i][1]), evaluation_instances[j]>>
                                \in C \ keys_to_skip}
    IN /\ Range(ran) \subseteq C \ keys_to_skip
       /\ Len(ran) <= Cardinality(pendingItems)
       /\ epc = "done" => /\ Range(ran) = C \ keys_to_skip
                          /\ Len(ran) = Cardinality(pendingItems)
       /\ num # NotCounted => num = Cardinality(pendingItems)
       /\ C \subseteq keys_to_skip => ran = <<>>

\* C1 witness: execute returned having run two items and skipped a stored one
C1_Witness ==
    /\ epc = "done"
    /\ Len(ran) >= 2
    /\ evaluation_instances = <<"a", "b">>
    /\ \E k \in keys_to_skip : k \in CandidateKeys(scorer, models, evaluation_instances)
    /\ ForeignKey \in keys_to_skip

\* C7: a transport failure in _get_response ends execute at once.  Where it has been
\* raised nothing more can happen, the store holds what it held when execute began
\* followed by one record per item run before the failing one (none for the failing
\* item), each item cost one call (no retry); and no call is ever made after a call
\* that produced no record.
C7_TransportFailureAborts ==
    /\ epc = "raised_transport" =>
          /\ ~ENABLED NextExec
          /\ SubSeq(db, 1, Len(db0)) = db0
          /\ Len(NewRecords) = Len(ran) - 1
          /\ \A k \in 1..Len(NewRecords) : KeyOf(NewRecords[k]) = ran[k]
          /\ calls = Len(ran)
          /\ progress = Len(ran) - 1
    /\ calls <= Len(NewRecords) + 1

\* C7 witness: the transport failed on the second pending item, after one record of
\* this run and with an older document in the store
C7_Witness ==
    /\ epc = "raised_transport"
    /\ Len(ran) = 2
    /\ Len(db0) = 1
    /\ Len(db) = 2
    /\ mi <= Len(models)
    /\ (mi < Len(models) \/ ei < Len(evaluation_instances))

(***************************************************************************)
(* Claims about the runner command (Spec).                                 *)
(***************************************************************************)
IsInstanceRecord(doc) == doc.output_type = "instance"

\* the number of (evaluation, provider, model) combinations of this run
CrossProductSize == Len(evaluations) * Len(FlattenModels(config.models))

C4_FlagOffOverwrites ==
    (pc \notin {"idle"} /\ ~flag_given) =>
        /\ ~only_new
        /\ pc = "running" => Len(evaluations_to_run) = CrossProductSize
        /\ (pc = "exited" /\ exit_status = 0) =>
              /\ Len(NewRecords) = CrossProductSize
              /\ \A k \in 1..Len(NewRecords) :
                    Cardinality({i \in 1..Len(db) :
                                    /\ IsInstanceRecord(db[i])
                                    /\ KeyOf(db[i]) = KeyOf(NewRecords[k])}) = 1

UnknownType(evals) == \E i \in 1..Len(evals) : evals[i].type \notin EVALUATION_REGISTRY

\* C5: validation is fail-fast.  While the loaded definitions hold an instance whose
\* type is not in the registry the run is either about to validate or has exited with
\* an error: nothing has been gathered, no completion call made, no record inserted,
\* no progress reported; and definition files that hold such an instance never lead
\* to a call or a record in any run.
C5_ValidationFailFast ==
    /\ UnknownType(evaluations) =>
          /\ pc \in {"files_read", "exited"}
          /\ pc = "exited" => exit_status = 1
          /\ evaluations_to_run = <<>>
          /\ calls = 0
          /\ progress = 0
          /\ db = db0
    /\ UnknownType(ReadEvaluations(files)) => (calls = 0 /\ db = <<>>)

\* C5 witness: the run has aborted on definitions whose first instance is valid and
\* whose second has an unregistered type, under a configuration that loaded and
\* names models
C5_Witness ==
    /\ pc = "exited"
    /\ exit_status = 1
    /\ ~config.is_none
    /\ config.models # <<>>
    /\ Len(evaluations) = 2
    /\ evaluations[1].type \in EVALUATION_REGISTRY
    /\ evaluations[2].type \notin EVALUATION_REGISTRY

\* C6: a missing definition file, a missing configuration file or a configuration
\* without a required key ends the process with a non-zero status, and no evaluation
\* has executed, whatever the list of definition files.
C6_BadInputsExitNonZero ==
    (/\ pc = "exited"
     /\ \/ ~config_yaml.exists
        \/ ~config_yaml.has_evaluation_model
        \/ ~config_yaml.has_models
        \/ SomeFileMissing(files)) =>
        (exit_status # 0 /\ calls = 0)

(***************************************************************************)
(* Claims about the scorers' _evaluate (SpecScore).                        *)
(***************************************************************************)
BooleanScorers == {"EvaluationContainsPattern", "EvaluationStructuredOutput", "MMLUProEvaluation"}

\* C8: scorers never raise out of scoring: once the score operation has been called
\* it has returned a score, whatever the scorer, the response and the parameters.
C8_ScorersNeverRaise ==
    spc # "ready" => (~outcome.raised /\ outcome.score[2] > 0)

\* C9: every persisted score is within [0, 100], and the scores of the pattern, the
\* schema and the multiple-choice scorer are exactly 0 or exactly 100.
C9_ScoreInRange ==
    spc = "saved" =>
        /\ InRange(instance_output.score)
        /\ scorer \in BooleanScorers => IsZeroOrHundred(instance_output.score)

\* the importance of the criteria the judge answered with the boolean true
RECURSIVE JudgedTrueSum(_, _)
JudgedTrueSum(importance, judge) ==
    IF importance = <<>> THEN 0
    ELSE (IF Head(judge) = "true" THEN Head(importance) ELSE 0)
         + JudgedTrueSum(Tail(importance), Tail(judge))

\* |q - 100 * part / whole| <= 0.005: q is what rounding to two decimals can give
RoundsFrom(q, part, whole) ==
    LET diff == q[1] * whole - 100 * part * q[2]
        bound == IF whole < 0 THEN (0 - whole) * q[2] ELSE whole * q[2]
    IN 200 * (IF diff < 0 THEN 0 - diff ELSE diff) <= bound

\* C10: for every rubric instance with at least one criterion whose judge calls all
\* answered, whatever the integer importances and the verdicts, the score operation
\* returns the sum of the normalized weights of the criteria judged true, rounded to
\* two decimals, and that score is within [0, 100].
C10_RubricScoreRounded ==
    (/\ scorer = "EvaluationMeetsCriteria"
     /\ spc # "ready"
     /\ Len(inputs.importance) > 0
     /\ \A i \in 1..Len(inputs.judge) : inputs.judge[i] # "transport_error") =>
        /\ ~outcome.raised
        /\ TwoDecimals(outcome.score)
        /\ InRange(outcome.score)
        /\ SumSeq(inputs.importance) # 0
        /\ RoundsFrom(outcome.score, JudgedTrueSum(inputs.importance, inputs.judge),
                      SumSeq(inputs.importance))

\* the importance of the criteria whose verdict the code counts (a truthy answer)
RECURSIVE CountedSum(_, _)
CountedSum(importance, judge) ==
    IF importance = <<>> THEN 0
    ELSE (IF Truthy(Head(judge)) THEN Head(importance) ELSE 0)
         + CountedSum(Tail(importance), Tail(judge))

\* the rational q is the number k
FracIs(q, k) == q[2] > 0 /\ q[1] = k * q[2]

AllJudgedTrue(judge) == \A i \in 1..Len(judge) : judge[i] = "true"

\* C11: the normalized weights of one rubric instance sum to 100 whatever the scale
\* of the importances: an instance with at least one criterion, all of them judged
\* true, gets a score from the score operation, and that score is 100.
C11_WeightsSumTo100 ==
    (/\ scorer = "EvaluationMeetsCriteria"
     /\ spc # "ready"
     /\ Len(inputs.importance) > 0
     /\ AllJudgedTrue(inputs.judge)) =>
        (~outcome.raised /\ FracIs(outcome.score, 100))

FailedExtraction == {"malformed_json", "missing_key", "transport_error"}

\* C12: a criterion whose verdict cannot be extracted (malformed JSON, no "answer"
\* key, transport error on a judge call) contributes 0 and does not abort the
\* instance: with importances that do not sum to 0, the score operation still returns
\* a score, the sum of the weights of the other criteria the judge answered true.
C12_BadCriterionContributesZero ==
    (/\ scorer = "EvaluationMeetsCriteria"
     /\ spc # "ready"
     /\ SumSeq(inputs.importance) # 0
     /\ \E i \in 1..Len(inputs.judge) : inputs.judge[i] \in FailedExtraction) =>
        /\ ~outcome.raised
        /\ outcome.score[2] > 0
        /\ outcome.score[1] * SumSeq(inputs.importance)
             = 100 * CountedSum(inputs.importance, inputs.judge) * outcome.score[2]

(***************************************************************************)
(* EvaluationMeetsCriteria.execute on one pending item, call by call       *)
(* (meets_criteria.py 141-157, _get_response 159-172, _evaluate 174-225).  *)
(* Every chat_completion call is logged with what it was given and what    *)
(* it gave back; a call that fails in the transport raises.                *)
(***************************************************************************)
RubricMessages == {<<"so">>, <<"<think>", "A", "</think>", "so">>}
ReasoningTexts == {"the response meets it", "the response misses it"}
ConvertOutcomes == AnswerValues \cup {"missing_key", "malformed_json"}
TransportError == "TransportError"

Call(kind, criterion, input, output) ==
    [kind |-> kind, criterion |-> criterion, input |-> input, output |-> output]

\* variables={"response": response_message, "criteria": crit.criteria}
ReasoningInput(response_message, criterion) ==
    [response |-> response_message, criteria |-> criterion]

\* a conversion prompt built from the answer instead of the judge's reasoning
ConvertInput_Answer(reasoning_text, response_message) == response_message

\* variables={"response": reasoning.choices[0].message.content}
ConvertInput(reasoning_text, response_message) == reasoning_text

InitRubric ==
    /\ semantic_criteria \in SeqsUpTo(ImportanceValues, MaxCriteria)
    /\ message = <<>>
    /\ reasoning = None
    /\ crit = 0
    /\ score_sum = 0
    /\ call_log = <<>>
    /\ rpc = "get_response"
    /\ scorer = "EvaluationMeetsCriteria"
    /\ inputs = <<>>
    /\ outcome = NoOutcome
    /\ instance_output = NoOutput
    /\ spc = "idle"
    /\ IdleExec
    /\ IdleMain
    /\ IdleShared
    /\ IdleConflict
    /\ IdleStrip
    /\ IdleLoad
    /\ IdleFrame

\* response = self._get_response(...); message = response.choices[0].message.content
GetAnswerOk ==
    /\ rpc = "get_response"
    /\ \E m \in RubricMessages :
          /\ message' = m
          /\ call_log' = Append(call_log, Call("answer", 0, "prompt", m))
    /\ calls' = calls + 1
    /\ rpc' = "evaluate"
    /\ UNCHANGED <<loadVars, frameVars, stripVars, scoreVars, execVars, mainVars, conflictVars, db, db0, progress,
                   semantic_criteria, reasoning, crit, score_sum>>

\* the completion call of _get_response raises
GetAnswerFails ==
    /\ rpc = "get_response"
    /\ call_log' = Append(call_log, Call("answer", 0, "prompt", TransportError))
    /\ calls' = calls + 1
    /\ rpc' = "raised"
    /\ UNCHANGED <<loadVars, frameVars, stripVars, scoreVars, execVars, mainVars, conflictVars, db, db0, progress,
                   semantic_criteria, message, reasoning, crit, score_sum>>

\* _evaluate begins: strip_thinking, score = 0, total_importance = sum(...)
EvaluateBegin ==
    /\ rpc = "evaluate"
    /\ message' = strip_thinking(message)
    /\ score_sum' = 0
    /\ crit' = 1
    /\ rpc' = "loop"
    /\ UNCHANGED <<loadVars, frameVars, stripVars, scoreVars, execVars, mainVars, conflictVars, sharedVars,
                   semantic_criteria, reasoning, call_log>>

\* importance = (importance / total_importance) * 100 with total_importance = 0
NormalizeRaises ==
    /\ rpc = "loop"
    /\ crit <= Len(semantic_criteria)
    /\ SumSeq(semantic_criteria) = 0
    /\ outcome' = Raised("ZeroDivisionError")
    /\ rpc' = "raised"
    /\ UNCHANGED <<loadVars, frameVars, stripVars, scorer, inputs, instance_output, spc, execVars, mainVars, conflictVars,
                   sharedVars, semantic_criteria, message, reasoning, crit, score_sum,
                   call_log>>

\* reasoning = chat_completion(request, ...) returns
ReasoningCallOk ==
    /\ rpc = "loop"
    /\ crit <= Len(semantic_criteria)
    /\ SumSeq(semantic_criteria) # 0
    /\ \E text \in ReasoningTexts :
          /\ reasoning' = text
          /\ call_log' = Append(call_log,
                                Call("reasoning", crit, ReasoningInput(message, crit), text))
    /\ rpc' = "convert"
    /\ UNCHANGED <<loadVars, frameVars, stripVars, scoreVars, execVars, mainVars, conflictVars, sharedVars,
                   semantic_criteria, message, crit, score_sum>>

\* the reasoning call raises
ReasoningCallFails ==
    /\ rpc = "loop"
    /\ crit <= Len(semantic_criteria)
    /\ SumSeq(semantic_criteria) # 0
    /\ call_log' = Append(call_log,
                          Call("reasoning", crit, ReasoningInput(message, crit), TransportError))
    /\ outcome' = Raised(TransportError)
    /\ rpc' = "raised"
    /\ UNCHANGED <<loadVars, frameVars, stripVars, scorer, inputs, instance_output, spc, execVars, mainVars, conflictVars,
                   sharedVars, semantic_criteria, message, reasoning, crit, score_sum>>

\* evaluation_result = chat_completion(request, ...) returns; then the try block:
\* json_message["answer"], `if evaluation_result: score += importance`, except: continue
ConvertCallOk ==
    /\ rpc = "convert"
    /\ \E v \in ConvertOutcomes :
          /\ call_log' = Append(call_log,
                                Call("convert", crit, ConvertInput(reasoning, message), v))
          /\ score_sum' = IF Truthy(v) THEN score_sum + semantic_criteria[crit]
                          ELSE score_sum
    /\ crit' = crit + 1
    /\ rpc' = "loop"
    /\ UNCHANGED <<loadVars, frameVars, stripVars, scoreVars, execVars, mainVars, conflictVars, sharedVars,
                   semantic_criteria, message, reasoning>>

\* the conversion call raises
ConvertCallFails ==
    /\ rpc = "convert"
    /\ call_log' = Append(call_log,
                          Call("convert", crit, ConvertInput(reasoning, message), TransportError))
    /\ outcome' = Raised(TransportError)
    /\ rpc' = "raised"
    /\ UNCHANGED <<loadVars, frameVars, stripVars, scorer, inputs, instance_output, spc, execVars, mainVars, conflictVars,
                   sharedVars, semantic_criteria, message, reasoning, crit, score_sum>>

\* return score
EvaluateReturn ==
    /\ rpc = "loop"
    /\ crit > Len(semantic_criteria)
    /\ outcome' = Returned(IF Len(semantic_criteria) = 0 THEN <<0, 1>>
                           ELSE Frac(100 * score_sum, SumSeq(semantic_criteria)), "")
    /\ rpc' = "returned"
    /\ UNCHANGED <<loadVars, frameVars, stripVars, scorer, inputs, instance_output, spc, execVars, mainVars, conflictVars,
                   sharedVars, semantic_criteria, message, reasoning, crit, score_sum,
                   call_log>>

\* instance_output = ...; instance_output.save_to_db(); progress.advance(0)
SaveRubricOutput ==
    /\ rpc = "returned"
    /\ instance_output' = [output_type |-> "instance",
                           class_name |-> OutputClassName(scorer),
                           score |-> outcome.score]
    /\ db' = save_to_db(db, OutputRecord(scorer, "m1", "Provider.OLLAMA", "a", outcome.score))
    /\ progress' = progress + 1
    /\ rpc' = "saved"
    /\ UNCHANGED <<loadVars, frameVars, stripVars, scorer, inputs, outcome, spc, execVars, mainVars, conflictVars, db0, calls,
                   semantic_criteria, message, reasoning, crit, score_sum, call_log>>

NextRubric ==
    \/ GetAnswerOk
    \/ GetAnswerFails
    \/ EvaluateBegin
    \/ NormalizeRaises
    \/ ReasoningCallOk
    \/ ReasoningCallFails
    \/ ConvertCallOk
    \/ ConvertCallFails
    \/ EvaluateReturn
    \/ SaveRubricOutput

SpecRubric == InitRubric /\ [][NextRubric]_vars

(***************************************************************************)
(* Claims about the rubric scorer's calls (SpecRubric).                    *)
(***************************************************************************)
\* the kind and the criterion of the k-th call of an execution: the answer call, then
\* for each criterion in list order its reasoning call and its conversion call
ExpectedKind(k) == IF k = 1 THEN "answer" ELSE IF k % 2 = 0 THEN "reasoning" ELSE "convert"
ExpectedCriterion(k) == k \div 2

\* C13: the calls of one execution on a rubric instance with n criteria are, in
\* order, one answer call, then per criterion in list order one reasoning call
\* followed by one conversion call given that reasoning call's text; no call follows
\* a call that failed, a reasoning call that returned is always followed by its
\* conversion call before anything else, and an execution that gets to its score
\* has made exactly 1 + 2n calls.
C13_CallSequence ==
    /\ \A k \in 1..Len(call_log) :
          /\ call_log[k].kind = ExpectedKind(k)
          /\ call_log[k].criterion = ExpectedCriterion(k)
          /\ call_log[k].criterion <= Len(semantic_criteria)
          /\ call_log[k].output = TransportError => k = Len(call_log)
          /\ call_log[k].kind = "convert" => call_log[k].input = call_log[k - 1].output
    /\ Len(call_log) <= 1 + 2 * Len(semantic_criteria)
    /\ (Len(call_log) > 1 /\ Len(call_log) % 2 = 0) => rpc \in {"convert", "raised"}
    /\ rpc = "convert" => (Len(call_log) % 2 = 0 /\ ENABLED ConvertCallOk)
    /\ rpc \in {"returned", "saved"} => Len(call_log) = 1 + 2 * Len(semantic_criteria)

\* C13 witness: an execution on two criteria has saved its score after five calls, the
\* two reasoning calls having returned different texts and the answer holding a
\* thinking block
C13_Witness ==
    /\ rpc = "saved"
    /\ Len(semantic_criteria) = 2
    /\ Len(call_log) = 5
    /\ call_log[2].output # call_log[4].output
    /\ Len(call_log[1].output) = 4

(***************************************************************************)
(* Claims about the multiple-choice scorer (SpecScore).                    *)
(***************************************************************************)
\* the text the extraction works on
Extractable(response) == replace_bold(strip_thinking(response))

\* positions of the matches of each pattern in a text
AnswerIsAt(t) == {i \in 1..(Len(t) - 1) : t[i] = "answer is" /\ t[i + 1] \in Letters}
MarkerAt(t) == {i \in 1..(Len(t) - 1) : t[i] = "Answer:" /\ t[i + 1] \in Letters}
LetterAt(t) == {i \in 1..Len(t) : t[i] \in Letters}
MinOf(S) == CHOOSE i \in S : \A k \in S : i <= k
MaxOf(S) == CHOOSE i \in S : \A k \in S : k <= i

\* the letter the three patterns give in their priority order, None when none matches
ByPriority(t) ==
    IF AnswerIsAt(t) # {} THEN t[MinOf(AnswerIsAt(t)) + 1]
    ELSE IF MarkerAt(t) # {} THEN t[MaxOf(MarkerAt(t)) + 1]
    ELSE IF LetterAt(t) # {} THEN t[MaxOf(LetterAt(t))]
    ELSE None

\* C14: the multiple-choice score is decided by the first of the three patterns that
\* matches, in the order "answer is (X)", "Answer: X", last isolated letter: it is 100
\* when that letter is the expected one and 0 otherwise, also when no pattern matches
\* or the response is None, and scoring never raises.
C14_ExtractionPriority ==
    (scorer = "MMLUProEvaluation" /\ spc # "ready") =>
        /\ ~outcome.raised
        /\ spc # "raised"
        /\ outcome.score =
              IF inputs.response # NoneText
                 /\ ByPriority(Extractable(inputs.response)) = inputs.answer
              THEN <<100, 1>> ELSE <<0, 1>>

\* C14 witness: a response where the first pattern gives the expected letter and the
\* second pattern, matching earlier in the text, gives another one has scored 100
C14_Witness ==
    /\ scorer = "MMLUProEvaluation"
    /\ spc = "saved"
    /\ inputs.response = <<"Answer:", "B", "answer is", "A">>
    /\ inputs.answer = "A"
    /\ instance_output.score = <<100, 1>>

(***************************************************************************)
(* strip_thinking applied to a text and its result handed on, as           *)
(* MMLUProEvaluation._evaluate (141, 166-167) and                          *)
(* EvaluationMeetsCriteria._evaluate (175, 185-191) do.  A text is a list  *)
(* of fragments; "<th" directly followed by "ink>" reads "<think>".        *)
(***************************************************************************)
MaxThinkLen == 5     \* fragments of a text given to strip_thinking

ThinkFragments == {"<think>", "</think>", "<th", "ink>", "B"}
ThinkTexts == SeqsUpTo(ThinkFragments, MaxThinkLen)

InitStrip ==
    /\ think_text \in ThinkTexts
    /\ think_result = NotStripped
    /\ reached = NotReached
    /\ scorer = "none"
    /\ inputs = <<>>
    /\ outcome = NoOutcome
    /\ instance_output = NoOutput
    /\ spc = "idle"
    /\ IdleExec
    /\ IdleMain
    /\ IdleShared
    /\ IdleRubric
    /\ IdleConflict
    /\ IdleLoad
    /\ IdleFrame

\* response = strip_thinking(response)
StripThinking ==
    /\ think_result = NotStripped
    /\ think_result' = strip_thinking(think_text)
    /\ UNCHANGED <<loadVars, frameVars, scoreVars, execVars, mainVars, sharedVars, rubricVars, conflictVars,
                   think_text, reached>>

\* mmlu_pro: response = response.replace("**", ""); extract_answer(response)
HandToExtraction ==
    /\ think_result # NotStripped
    /\ reached = NotReached
    /\ reached' = [to |-> "extract_answer", text |-> replace_bold(think_result)]
    /\ UNCHANGED <<loadVars, frameVars, scoreVars, execVars, mainVars, sharedVars, rubricVars, conflictVars,
                   think_text, think_result>>

\* meets_criteria: variables={"response": response_message, ...} of the reasoning call
HandToJudge ==
    /\ think_result # NotStripped
    /\ reached = NotReached
    /\ reached' = [to |-> "judge", text |-> ReasoningInput(think_result, 1).response]
    /\ UNCHANGED <<loadVars, frameVars, scoreVars, execVars, mainVars, sharedVars, rubricVars, conflictVars,
                   think_text, think_result>>

NextStrip ==
    \/ StripThinking
    \/ HandToExtraction
    \/ HandToJudge

SpecStrip == InitStrip /\ [][NextStrip]_vars

\* a text holds a thinking block: the tag "<think>" and, after it, the tag "</think>"
HasThinkBlock(t) ==
    \E i \in 1..Len(t) :
        LET n == OpenTagLen(SubSeq(t, i, Len(t))) IN
        n > 0 /\ \E j \in (i + n)..Len(t) : t[j] = "</think>"

\* C15: whatever the input, the text strip_thinking returns holds no
\* <think>...</think> block, and neither does the text that reaches the
\* multiple-choice extraction or the rubric judge.
C15_NoThinkBlockLeft ==
    /\ think_result # NotStripped => ~HasThinkBlock(think_result)
    /\ reached # NotReached => ~HasThinkBlock(reached.text)

(***************************************************************************)
(* Claims about the instruction-following scorer (SpecScore).              *)
(***************************************************************************)
\* the checkers that pass: the response is non-empty once trimmed and the checker's
\* own predicate holds
PassingCheckers(response, follows) ==
    {i \in 1..Len(follows) : strip(response) # "" /\ follows[i]}

\* C16: the instruction-following score is (passing checkers / total checkers) x 100,
\* a checker passing only on a response that is non-empty once trimmed and that its
\* predicate accepts; for every instruction list an empty or whitespace-only response
\* scores 0, and the score is within [0, 100].
C16_IFEvalScore ==
    (scorer = "IFEvalEvaluation" /\ spc # "ready") =>
        /\ ~outcome.raised
        /\ InRange(outcome.score)
        /\ Len(inputs.instruction_id_list) > 0 =>
              outcome.score[1] * Len(inputs.instruction_id_list)
                = 100 * Cardinality(PassingCheckers(inputs.response, inputs.follows))
                      * outcome.score[2]
        /\ strip(inputs.response) = "" => outcome.score[1] = 0

(***************************************************************************)
(* instructions_registry: conflict_make and INSTRUCTION_CONFLICTS.  A      *)
(* dictionary is its keys in insertion order and the set under each key.   *)
(* A set is iterated in an order the program does not choose: set_order    *)
(* is that order for this process.                                         *)
(***************************************************************************)
MaxApplications == 2     \* conflict_make calls on one dictionary

ConflictIds == {"keywords:existence", "language:response_language",
                "detectable_format:multiple_sections"}

\* the sequences without repetition over the members of S
Orderings(S) == {q \in SeqsUpTo(S, Cardinality(S)) : \A i, j \in 1..Len(q) : q[i] = q[j] => i = j}
Permutations_(S) == {q \in Orderings(S) : Len(q) = Cardinality(S)}

ConflictTables ==
    UNION {[keys : {ks}, sets : [Range(ks) -> SUBSET ConflictIds]] : ks \in Orderings(ConflictIds)}

\* the members of set S in the order the process iterates them
IterationOf(S, order) == SelectSeq(order, LAMBDA id : id \in S)

\* conflicts[k].update(conflicts[key]) in place of the add
AddConflict_Update(target, key, key_set) == target \cup key_set

\* conflicts[k].add(key)
AddConflict(target, key, key_set) == target \cup {key}

\* a revision that leaves the key's own set as it is
AddSelf_Skip(own_set, key) == own_set

\* conflicts[key].add(key)
AddSelf(own_set, key) == own_set \cup {key}

\* for k in conflicts[key]: conflicts[k].add(key); conflicts[k] raises KeyError when k
\* is not a key
RECURSIVE ConflictInnerLoop(_, _, _)
ConflictInnerLoop(sets, key, ks) ==
    IF ks = <<>> THEN [raised |-> FALSE, sets |-> sets]
    ELSE IF Head(ks) \notin DOMAIN sets THEN [raised |-> TRUE, sets |-> sets]
    ELSE ConflictInnerLoop([sets EXCEPT ![Head(ks)] = AddConflict(@, key, sets[key])],
                           key, Tail(ks))

\* for key in conflicts: ...; conflicts[key].add(key)
RECURSIVE ConflictOuterLoop(_, _, _)
ConflictOuterLoop(sets, keys, order) ==
    IF keys = <<>> THEN [raised |-> FALSE, sets |-> sets]
    ELSE LET inner == ConflictInnerLoop(sets, Head(keys), IterationOf(sets[Head(keys)], order))
         IN IF inner.raised THEN inner
            ELSE ConflictOuterLoop([inner.sets EXCEPT ![Head(keys)] = AddSelf(@, Head(keys))],
                                   Tail(keys), order)

\* conflict_make(conflicts): the dictionary as the call leaves it, and whether it raised
conflict_make(table, order) ==
    LET done == ConflictOuterLoop(table.sets, table.keys, order) IN
    [raised |-> done.raised, table |-> [keys |-> table.keys, sets |-> done.sets]]

\* the keys of INSTRUCTION_CONFLICTS in the order the literal writes them
ConflictKeys ==
    <<"keywords:existence", "keywords:frequency", "keywords:forbidden_words",
      "keywords:letter_frequency", "language:response_language",
      "length_constraints:number_sentences", "length_constraints:number_paragraphs",
      "length_constraints:number_words", "length_constraints:nth_paragraph_first_word",
      "detectable_content:number_placeholders", "detectable_content:postscript",
      "detectable_format:number_bullet_lists", "detectable_format:constrained_response",
      "detectable_format:number_highlighted_sections", "detectable_format:multiple_sections",
      "detectable_format:json_format", "detectable_format:title",
      "combination:two_responses", "combination:repeat_prompt", "startend:end_checker",
      "change_case:capital_word_frequency", "change_case:english_capital",
      "change_case:english_lowercase", "punctuation:no_comma", "startend:quotation">>

\* the set the literal writes under key id
DeclaredConflicts(id) ==
    CASE id = "language:response_language" ->
           {"language:response_language", "detectable_format:multiple_sections",
            "keywords:existence", "keywords:frequency", "keywords:forbidden_words",
            "startend:end_checker", "change_case:english_capital",
            "change_case:english_lowercase"}
      [] id = "length_constraints:number_paragraphs" ->
           {"length_constraints:number_paragraphs",
            "length_constraints:nth_paragraph_first_word",
            "length_constraints:number_sentences"}
      [] id = "length_constraints:nth_paragraph_first_word" ->
           {"length_constraints:nth_paragraph_first_word",
            "length_constraints:number_paragraphs"}
      [] id = "detectable_format:constrained_response" -> INSTRUCTION_DICT
      [] id = "detectable_format:multiple_sections" ->
           {"detectable_format:multiple_sections", "language:response_language",
            "detectable_format:number_highlighted_sections"}
      [] id = "detectable_format:json_format" ->
           INSTRUCTION_DICT \ {"keywords:forbidden_words", "keywords:existence"}
      [] id = "combination:two_responses" ->
           INSTRUCTION_DICT \ {"keywords:forbidden_words", "keywords:existence",
                               "language:response_language", "detectable_format:title",
                               "punctuation:no_comma"}
      [] id = "combination:repeat_prompt" ->
           INSTRUCTION_DICT \ {"keywords:existence", "detectable_format:title",
                               "punctuation:no_comma"}
      [] id = "change_case:capital_word_frequency" ->
           {"change_case:capital_word_frequency", "change_case:english_lowercase",
            "change_case:english_capital"}
      [] id = "change_case:english_lowercase" ->
           {"change_case:english_lowercase", "change_case:english_capital"}
      [] id = "startend:quotation" -> {"startend:quotation", "detectable_format:title"}
      [] OTHER -> {id}

\* the module-level dictionary, as the import leaves it
INSTRUCTION_CONFLICTS ==
    [keys |-> ConflictKeys, sets |-> [id \in Range(ConflictKeys) |-> DeclaredConflicts(id)]]

InitConflict ==
    /\ conflicts0 \in ConflictTables
    /\ conflicts = conflicts0
    /\ set_order \in Permutations_(ConflictIds)
    /\ applied = 0
    /\ after_first = EmptyTable
    /\ key_error = <<>>
    /\ registry = NotImported
    /\ scorer = "none"
    /\ inputs = <<>>
    /\ outcome = NoOutcome
    /\ instance_output = NoOutput
    /\ spc = "idle"
    /\ IdleExec
    /\ IdleMain
    /\ IdleShared
    /\ IdleRubric
    /\ IdleStrip
    /\ IdleLoad
    /\ IdleFrame

\* one call conflict_make(conflicts); the dictionary is changed in place, also by a
\* call that raises
ConflictMake ==
    /\ applied < MaxApplications
    /\ LET call == conflict_make(conflicts, set_order) IN
         /\ conflicts' = call.table
         /\ key_error' = Append(key_error, call.raised)
         /\ after_first' = IF applied = 0 THEN call.table ELSE after_first
    /\ applied' = applied + 1
    /\ UNCHANGED <<loadVars, frameVars, scoreVars, execVars, mainVars, sharedVars, rubricVars, stripVars,
                   conflicts0, set_order, registry>>

\* import of instructions_registry: the module body binds INSTRUCTION_CONFLICTS to the
\* literal and defines conflict_make; it calls nothing
ImportRegistry ==
    /\ registry = NotImported
    /\ registry' = INSTRUCTION_CONFLICTS
    /\ UNCHANGED <<loadVars, frameVars, scoreVars, execVars, mainVars, sharedVars, rubricVars, stripVars,
                   conflicts, conflicts0, set_order, applied, after_first, key_error>>

NextConflict == ConflictMake \/ ImportRegistry

SpecConflict == InitConflict /\ [][NextConflict]_vars

\* every member of every set of the dictionary is one of its keys
NamesOnlyKeys(table) == \A k \in Range(table.keys) : table.sets[k] \subseteq Range(table.keys)

\* B is in conflicts(A) iff A is in conflicts(B)
Symmetric(table) ==
    \A a, b \in Range(table.keys) : (b \in table.sets[a]) <=> (a \in table.sets[b])

\* every identifier is in its own conflict set
Reflexive(table) == \A a \in Range(table.keys) : a \in table.sets[a]

\* C17: once conflict_make has been applied to a table whose values only name keys of
\* the table, the call has not raised and the table is symmetric and reflexive: B is in
\* conflicts(A) iff A is in conflicts(B), and every identifier is in its own set.
C17_SymmetricReflexive ==
    (applied >= 1 /\ NamesOnlyKeys(conflicts0)) =>
        /\ ~key_error[1]
        /\ NamesOnlyKeys(after_first)
        /\ Symmetric(after_first) /\ Reflexive(after_first)
        /\ Symmetric(conflicts) /\ Reflexive(conflicts)

\* C17 witness: one call has run on a three-key table that named only its keys and was
\* neither symmetric nor reflexive
C17_Witness ==
    /\ applied = 1
    /\ Len(conflicts0.keys) = 3
    /\ NamesOnlyKeys(conflicts0)
    /\ ~Symmetric(conflicts0)
    /\ ~Reflexive(conflicts0)
    /\ Symmetric(conflicts)

\* C18: applying conflict_make a second time leaves the table exactly as the first
\* application left it, and ends the way the first one ended (returning, or raising
\* KeyError), for every table.
C18_Idempotent ==
    applied >= 2 =>
        /\ conflicts = after_first
        /\ \A i \in 1..applied : key_error[i] = key_error[1]

\* C18 witness: two calls have run on a table that the first call changed
C18_Witness ==
    /\ applied = 2
    /\ ~key_error[1]
    /\ after_first # conflicts0
    /\ conflicts = after_first

\* C19: the table the registry exposes once loaded is symmetric: whenever it lists B
\* as a conflict of A it also lists A as a conflict of B.
C19_RegistrySymmetric ==
    registry # NotImported => Symmetric(registry)

(***************************************************************************)
(* Progress reporting: the scorer's num_instances / execute pair and the   *)
(* runner's add_task / advance pair, side by side.                         *)
(***************************************************************************)
InitProgress == InitExec \/ Init

NextProgress == NextExec \/ Next

SpecProgress == InitProgress /\ [][NextProgress]_vars

\* the items of execute's loops whose key is not in keys_to_skip
PendingItems ==
    {<<i, j>> \in (1..Len(models)) \X (1..Len(evaluation_instances)) :
        ExecKey(scorer, models[i], evaluation_instances[j]) \notin keys_to_skip}

\* the total is known and no later step changes it
TotalIsStable ==
    /\ (num # NotCounted /\ epc # "idle") => num' = num
    /\ pc = "running" => total' = total

\* one step advances progress by at most one unit
AdvancesByOne == progress' \in {progress, progress + 1} \/ pc' = "parsed"

\* C20: the progress total is the number of pending items and is reported before any
\* item executes: nothing has run or advanced while it is not yet known; it never
\* changes afterwards; progress advances by one unit for each item that was executed
\* and saved and never for a skipped item; and when execute (or the run) has ended well
\* the number of advances equals the total.
C20_ProgressTotal ==
    /\ [](epc # "idle" =>
            /\ num = NotCounted => (ran = <<>> /\ progress = 0)
            /\ num # NotCounted => num = Cardinality(PendingItems)
            /\ Range(ran) \cap keys_to_skip = {}
            /\ progress = IF epc = "advance" THEN Len(NewRecords) - 1 ELSE Len(NewRecords)
            /\ progress <= Len(ran)
            /\ epc \in {"loop", "done"} => progress = Len(ran)
            /\ epc = "done" => progress = num)
    /\ [](pc # "unused" =>
            /\ pc \notin {"running", "exited"} => progress = 0
            /\ pc = "running" => /\ total = Len(evaluations_to_run)
                                 /\ progress = idx - 1
                                 /\ progress <= total
            /\ (pc = "exited" /\ exit_status = 0) => progress = total)
    /\ [][TotalIsStable /\ AdvancesByOne]_vars

\* C20 witness: execute returned after two advances with a stored item skipped, the
\* total having been two
C20_Witness ==
    /\ epc = "done"
    /\ num = 2
    /\ progress = 2
    /\ Cardinality(PendingItems) < Len(models) * Len(evaluation_instances)

(***************************************************************************)
(* Claims about provider resolution, configuration loading and the frame   *)
(* of an execution.                                                        *)
(***************************************************************************)
\* C21: provider resolution, as a scorer's execute invokes it, fails with the
\* unsupported-provider error only for an identifier outside the enumeration: execute
\* never ends on that error for a provider that is a member of Provider.
C21_SupportedProviderResolves ==
    epc = "raised_provider" => models[mi][1] \notin Providers

(***************************************************************************)
(* RunConfig.load, EvaluationConfig.load and                               *)
(* EvaluationInstance.initialize_evaluation_instances: a try block whose   *)
(* steps can raise, the except clauses, and the return.                    *)
(***************************************************************************)
Loaders == {"RunConfig.load", "EvaluationConfig.load"}

\* the keys load reads with data.get
LoaderFields(l) ==
    IF l = "RunConfig.load" THEN {"models", "evaluation_model", "evaluation_provider"}
    ELSE {"run_config", "evaluation_instances"}

\* a key of the YAML mapping: absent, holding a value the model accepts, or one it rejects
FieldStates == {"absent", "valid", "invalid"}

\* the file at `path`: missing, unreadable, not YAML, YAML that is not a mapping
\* (empty, or a list), or a mapping
Documents(l) ==
    {NoDocument, [exists |-> TRUE, readable |-> FALSE, yaml |-> "none", fields |-> <<>>]}
    \cup {[exists |-> TRUE, readable |-> TRUE, yaml |-> y, fields |-> <<>>] :
            y \in {"malformed", "empty", "list"}}
    \cup {[exists |-> TRUE, readable |-> TRUE, yaml |-> "mapping", fields |-> f] :
            f \in [LoaderFields(l) -> FieldStates]}

\* the exception classes the steps raise, all of them subclasses of Exception
ExceptionClasses ==
    {"FileNotFoundError", "PermissionError", "YAMLError", "AttributeError", "ValidationError"}

\* a handler list without the final `except Exception`
CaughtByExcept_Named(kind) == kind \in {"FileNotFoundError", "ValidationError"}

\* whether one of the except clauses of load takes an exception of class kind
CaughtByExcept(kind) == kind \in ExceptionClasses

\* the value data.get(key, default) hands to the model: the default for an absent key
\* is {} for models and run_config, [] for evaluation_instances, None for the others
FieldAccepted(key, state) ==
    CASE state = "valid" -> TRUE
      [] state = "invalid" -> FALSE
      [] OTHER -> key \in {"models", "evaluation_instances"}

\* cls(**config_data) validates
Validates(l, fields) == \A key \in LoaderFields(l) : FieldAccepted(key, fields[key])

ReturnedNone == [returned |-> TRUE, is_none |-> TRUE, value |-> <<>>]
ReturnedConfig(fields) == [returned |-> TRUE, is_none |-> FALSE, value |-> fields]

\* the evaluation dicts and the config initialize_evaluation_instances is given
LoadConfigs == {NoConfig, [is_none |-> FALSE, models |-> <<>>]}

InitLoad ==
    /\ \/ /\ loader \in Loaders
          /\ document \in Documents(loader)
          /\ entries = <<>>
          /\ lpc = "open"
          /\ config = NoConfig
       \/ /\ loader = "initialize_evaluation_instances"
          /\ document = NoDocument
          /\ entries \in FileContents
          /\ lpc = "loop"
          /\ config \in LoadConfigs
    /\ exc = NoException
    /\ loaded = NotLoaded
    /\ logged = <<>>
    /\ scorer = "none"
    /\ inputs = <<>>
    /\ outcome = NoOutcome
    /\ instance_output = NoOutput
    /\ spc = "idle"
    /\ IdleExec
    /\ config_yaml = [exists |-> FALSE, has_models |-> FALSE, models |-> <<>>,
                      has_evaluation_model |-> FALSE]
    /\ files = <<>>
    /\ flag_given = FALSE
    /\ only_new = FALSE
    /\ evaluations = <<>>
    /\ unique_evals = {}
    /\ evaluations_to_run = <<>>
    /\ provider = Unbound
    /\ idx = 0
    /\ total = 0
    /\ pc = "unused"
    /\ exit_status = Running
    /\ prev_exit = Running
    /\ run = 0
    /\ IdleShared
    /\ IdleRubric
    /\ IdleConflict
    /\ IdleStrip
    /\ IdleFrame

LoadFrame ==
    UNCHANGED <<scoreVars, execVars, mainVars, sharedVars, rubricVars, conflictVars,
                stripVars, frameVars, loader, document, entries>>

\* with path.open() as file
OpenFile ==
    /\ lpc = "open"
    /\ IF ~document.exists THEN exc' = "FileNotFoundError" /\ lpc' = "except"
       ELSE IF ~document.readable THEN exc' = "PermissionError" /\ lpc' = "except"
       ELSE exc' = exc /\ lpc' = "safe_load"
    /\ UNCHANGED <<loaded, logged>>
    /\ LoadFrame

\* data = yaml.safe_load(file)
SafeLoad ==
    /\ lpc = "safe_load"
    /\ IF document.yaml = "malformed" THEN exc' = "YAMLError" /\ lpc' = "except"
       ELSE exc' = exc /\ lpc' = "get"
    /\ UNCHANGED <<loaded, logged>>
    /\ LoadFrame

\* config_data[...] = data.get(...): data is None or a list when the document is not
\* a mapping
ReadKeys ==
    /\ lpc = "get"
    /\ IF document.yaml # "mapping" THEN exc' = "AttributeError" /\ lpc' = "except"
       ELSE exc' = exc /\ lpc' = "construct"
    /\ UNCHANGED <<loaded, logged>>
    /\ LoadFrame

\* return cls(**config_data)
Construct ==
    /\ lpc = "construct"
    /\ IF Validates(loader, document.fields)
       THEN /\ loaded' = ReturnedConfig(document.fields)
            /\ lpc' = "returned"
            /\ exc' = exc
       ELSE /\ exc' = "ValidationError"
            /\ lpc' = "except"
            /\ loaded' = loaded
    /\ UNCHANGED logged
    /\ LoadFrame

\* except FileNotFoundError: logger.error(...)
ExceptFileNotFound ==
    /\ lpc = "except"
    /\ exc = "FileNotFoundError"
    /\ logged' = Append(logged, "does not exist")
    /\ exc' = NoException
    /\ lpc' = "return_none"
    /\ UNCHANGED loaded
    /\ LoadFrame

\* except ValidationError as e: logger.error(...)
ExceptValidation ==
    /\ lpc = "except"
    /\ exc = "ValidationError"
    /\ logged' = Append(logged, "Validation error")
    /\ exc' = NoException
    /\ lpc' = "return_none"
    /\ UNCHANGED loaded
    /\ LoadFrame

\* except Exception as e: logger.error(...); an exception no clause takes leaves load
ExceptException ==
    /\ lpc = "except"
    /\ exc \notin {"FileNotFoundError", "ValidationError"}
    /\ IF CaughtByExcept(exc)
       THEN /\ logged' = Append(logged, "An unexpected error occurred")
            /\ exc' = NoException
            /\ lpc' = "return_none"
       ELSE /\ lpc' = "raised"
            /\ UNCHANGED <<logged, exc>>
    /\ UNCHANGED loaded
    /\ LoadFrame

\* return None
ReturnNone ==
    /\ lpc = "return_none"
    /\ loaded' = ReturnedNone
    /\ lpc' = "returned"
    /\ UNCHANGED <<exc, logged>>
    /\ LoadFrame

\* the entry the loop of initialize_evaluation_instances is at
EntryIndex == Len(loaded.value) + 1

\* evaluation_instance = cls(config=config, **evaluation); append
LoadEntryOk ==
    /\ lpc = "loop"
    /\ EntryIndex <= Len(entries)
    /\ ~ConstructionRaises(entries[EntryIndex], config)
    /\ loaded' = [loaded EXCEPT !.value = Append(@, entries[EntryIndex])]
    /\ UNCHANGED <<lpc, exc, logged>>
    /\ LoadFrame

\* cls(...) raises: except Exception logs the entry and the error; the list built so
\* far is what the method goes on to return
LoadEntryRaises ==
    /\ lpc = "loop"
    /\ EntryIndex <= Len(entries)
    /\ ConstructionRaises(entries[EntryIndex], config)
    /\ logged' = logged \o <<"An unexpected error occurred while loading the evaluation",
                             "Error">>
    /\ lpc' = "return_list"
    /\ UNCHANGED <<loaded, exc>>
    /\ LoadFrame

\* the loop is exhausted
LoadEntriesDone ==
    /\ lpc = "loop"
    /\ EntryIndex > Len(entries)
    /\ lpc' = "return_list"
    /\ UNCHANGED <<loaded, exc, logged>>
    /\ LoadFrame

\* return evaluation_instances
ReturnInstances ==
    /\ lpc = "return_list"
    /\ loaded' = [loaded EXCEPT !.returned = TRUE]
    /\ lpc' = "returned"
    /\ UNCHANGED <<exc, logged>>
    /\ LoadFrame

NextLoad ==
    \/ OpenFile
    \/ SafeLoad
    \/ ReadKeys
    \/ Construct
    \/ ExceptFileNotFound
    \/ ExceptValidation
    \/ ExceptException
    \/ ReturnNone
    \/ LoadEntryOk
    \/ LoadEntryRaises
    \/ LoadEntriesDone
    \/ ReturnInstances

SpecLoad == InitLoad /\ [][NextLoad]_vars

\* the file is there, readable, a YAML mapping, and the model accepts its values
LoadsWell ==
    /\ document.exists /\ document.readable /\ document.yaml = "mapping"
    /\ Validates(loader, document.fields)

\* C22: RunConfig.load and EvaluationConfig.load never raise.  No exception leaves the
\* method and every step short of the return has a next step; when the method has
\* returned, it returned the validated configuration and logged nothing if the file
\* loads well, and otherwise (missing file, validation error, any other error while
\* reading) it logged one error and returned None.
C22_LoadNeverRaises ==
    loader \in Loaders =>
        /\ lpc # "raised"
        /\ lpc # "returned" => ENABLED NextLoad
        /\ lpc = "returned" =>
              /\ exc = NoException
              /\ IF LoadsWell
                 THEN loaded = ReturnedConfig(document.fields) /\ logged = <<>>
                 ELSE loaded = ReturnedNone /\ Len(logged) = 1

\* C22 witness: load returned None for a file that is empty YAML, after the catch-all
\* clause logged the AttributeError of data.get
C22_Witness ==
    /\ loader \in Loaders
    /\ lpc = "returned"
    /\ document.yaml = "empty"
    /\ loaded = ReturnedNone
    /\ logged = <<"An unexpected error occurred">>

C24_InstanceNeverMutated ==
    spc \in {"evaluated", "raised", "saved"} =>
        /\ inputs = created
        /\ spc = "saved" => instance_output.evaluation_instance = created

\* the importance of the criteria whose extracted answer is the boolean true
RECURSIVE TrueSum(_, _)
TrueSum(importance, judge) ==
    IF importance = <<>> THEN 0
    ELSE (IF Head(judge) = "true" THEN Head(importance) ELSE 0)
         + TrueSum(Tail(importance), Tail(judge))

\* C28: the rubric scorer adds a criterion's normalized weight only when the extracted
\* "answer" is the boolean true: with every answer extracted and importances that do
\* not sum to 0, the score is 100 times the importance of the criteria answered true
\* over the total importance; false, a string such as "false", null contribute 0.
C28_OnlyBooleanTrueCounts ==
    (/\ scorer = "EvaluationMeetsCriteria"
     /\ spc # "ready"
     /\ SumSeq(inputs.importance) # 0
     /\ \A i \in 1..Len(inputs.judge) : inputs.judge[i] \in AnswerValues) =>
        /\ ~outcome.raised
        /\ outcome.score[1] * SumSeq(inputs.importance)
             = 100 * TrueSum(inputs.importance, inputs.judge) * outcome.score[2]

\* C25: for each pending item execute generates, then scores, then persists, then
\* advances progress.  Where the answer is being scored the call for it has been made
\* and nothing of the item is stored; where the record is being built the score
\* exists; where progress is about to advance the item's one record is the last of the
\* store and carries that score; between items each item entered has one call, one
\* record and one advance.  At every point the advances are at most the records
\* inserted by this execution, which are at most the advances plus one.
C25_GenerateScorePersistAdvance ==
    epc # "idle" =>
        /\ progress <= Len(NewRecords)
        /\ Len(NewRecords) <= progress + 1
        /\ SubSeq(db, 1, Len(db0)) = db0
        /\ \A k \in 1..Len(NewRecords) : KeyOf(NewRecords[k]) = ran[k]
        /\ epc = "get_response" =>
              /\ calls = Len(ran) - 1
              /\ Len(NewRecords) = Len(ran) - 1
              /\ progress = Len(ran) - 1
        /\ epc = "evaluate" =>
              /\ calls = Len(ran)
              /\ Len(NewRecords) = Len(ran) - 1
              /\ progress = Len(ran) - 1
        /\ epc = "save" =>
              /\ calls = Len(ran)
              /\ ~outcome.raised
              /\ Len(NewRecords) = Len(ran) - 1
              /\ progress = Len(ran) - 1
        /\ epc = "advance" =>
              /\ calls = Len(ran)
              /\ Len(NewRecords) = Len(ran)
              /\ NewRecords[Len(NewRecords)].score = outcome.score
              /\ progress = Len(ran) - 1
        /\ epc \in {"loop", "done"} =>
              /\ calls = Len(ran)
              /\ Len(NewRecords) = Len(ran)
              /\ progress = Len(ran)

\* C25 witness: the second item's record has been inserted and progress has not yet
\* advanced for it: two records of this execution, one advance
C25_Witness ==
    /\ epc = "advance"
    /\ Len(ran) = 2
    /\ Len(NewRecords) = 2
    /\ progress = 1

(***************************************************************************)
(* get_executed_evaluations applied to a store that holds documents of     *)
(* both kinds.                                                             *)
(***************************************************************************)
MaxDocs == 3         \* documents in the store

\* the documents a store can hold: instance records of two scorers and aggregate ones
StoredDocs ==
    {OutputRecord("EvaluationContainsPattern", "m1", "Provider.OLLAMA", "a", <<100, 1>>),
     OutputRecord("EvaluationContainsPattern", "m1", "Provider.OLLAMA", "b", <<0, 1>>),
     OutputRecord("MMLUProEvaluation", "m1", "Provider.OLLAMA", "a", <<100, 1>>),
     OverallRecord,
     [OverallRecord EXCEPT !.name_model = "m2"]}

InitKeys ==
    /\ db \in SeqsUpTo(StoredDocs, MaxDocs)
    /\ db0 = db
    /\ unique_evals = {}
    /\ kpc = "called"
    /\ created = <<>>
    /\ progress = 0
    /\ calls = 0
    /\ config_yaml = [exists |-> FALSE, has_models |-> FALSE, models |-> <<>>,
                      has_evaluation_model |-> FALSE]
    /\ files = <<>>
    /\ flag_given = FALSE
    /\ only_new = FALSE
    /\ config = NoConfig
    /\ evaluations = <<>>
    /\ evaluations_to_run = <<>>
    /\ provider = Unbound
    /\ idx = 0
    /\ total = 0
    /\ pc = "unused"
    /\ exit_status = Running
    /\ prev_exit = Running
    /\ run = 0
    /\ scorer = "none"
    /\ inputs = <<>>
    /\ outcome = NoOutcome
    /\ instance_output = NoOutput
    /\ spc = "idle"
    /\ IdleExec
    /\ IdleRubric
    /\ IdleConflict
    /\ IdleStrip
    /\ IdleLoad

\* the whole call: db.all(), the loop over the documents, return unique_evals
GetExecutedEvaluations ==
    /\ kpc = "called"
    /\ unique_evals' = get_executed_evaluations(db)
    /\ kpc' = "returned"
    /\ UNCHANGED <<scoreVars, execVars, sharedVars, rubricVars, conflictVars, stripVars,
                   loadVars, created, config_yaml, files, flag_given, only_new, config,
                   evaluations, evaluations_to_run, provider, idx, total, pc, exit_status,
                   prev_exit, run>>

NextKeys == GetExecutedEvaluations

SpecKeys == InitKeys /\ [][NextKeys]_vars

\* C26: the set get_executed_evaluations returns holds exactly the keys (class_name,
\* name_model, provider, evaluation_instance.name) of the stored documents whose
\* output_type is "instance": each such document's key is in it, and each of its
\* members is the key of such a document, so no aggregate document contributes a key.
C26_ExactlyInstanceKeys ==
    kpc = "returned" =>
        /\ \A i \in 1..Len(db) :
              db[i].output_type = "instance" =>
                 <<db[i].class_name, db[i].name_model, db[i].provider,
                   db[i].evaluation_instance.name>> \in unique_evals
        /\ \A key \in unique_evals :
              \E i \in 1..Len(db) :
                 /\ db[i].output_type = "instance"
                 /\ db[i].class_name = key[1] /\ db[i].name_model = key[2]
                 /\ db[i].provider = key[3] /\ db[i].evaluation_instance.name = key[4]
        /\ db = db0

\* C26 witness: the query has returned two keys from a store of two instance records
\* and one aggregate record
C26_Witness ==
    /\ kpc = "returned"
    /\ Len(db) = 3
    /\ \E i \in 1..Len(db) : db[i].output_type = "overall"
    /\ Cardinality(unique_evals) = 2

PairsKept(t, u) ==
    /\ u.keys = t.keys
    /\ \A a \in Range(t.keys) : t.sets[a] \subseteq u.sets[a]

\* every pair (a, b) of table u is a self pair, a pair of table t or the mirror of one
PairsJustified(t, u) ==
    \A a \in Range(u.keys) : \A b \in u.sets[a] :
        \/ a = b
        \/ b \in t.sets[a]
        \/ (b \in Range(t.keys) /\ a \in t.sets[b])

\* C30: conflict_make only adds what symmetry and reflexivity require: every pair of
\* the input table is still in the table after the call, and a pair (A, B) is in it
\* only if A = B, or B was in the input conflicts(A), or A was in the input
\* conflicts(B); nothing transitive or otherwise extra is introduced, by the first
\* call or by a repeated one.
C30_OnlyMirrorAndSelfPairs ==
    applied >= 1 =>
        /\ PairsKept(conflicts0, after_first)
        /\ PairsJustified(conflicts0, after_first)
        /\ PairsKept(conflicts0, conflicts)
        /\ PairsJustified(conflicts0, conflicts)

\* C30 witness: one call has returned on a chain A -> B -> C of three keys in which A
\* and C did not name each other, and they still do not
C30_Witness ==
    /\ applied = 1
    /\ ~key_error[1]
    /\ Len(conflicts0.keys) = 3
    /\ \E a, b, c \in Range(conflicts0.keys) :
          /\ a # b /\ b # c /\ a # c
          /\ b \in conflicts0.sets[a] /\ c \in conflicts0.sets[b]
          /\ c \notin conflicts0.sets[a] /\ a \notin conflicts0.sets[c]
          /\ a \in conflicts.sets[b] /\ b \in conflicts.sets[c]
          /\ c \notin conflicts.sets[a] /\ a \notin conflicts.sets[c]

=============================================================================
